---- MODULE Spec2Model ----
(***************************************************************************)
(* Technical-Drawing-Practice: the geometric engine.                       *)
(*                                                                         *)
(*   - shapeGenerator      (src/unnamed/part_000, lines 1-186)             *)
(*   - projectionCalculator (src/unnamed/part_001, lines 1-211)            *)
(*   - IsometricView       (src/unnamed/part_002)                          *)
(*   - App                 (src/App.tsx)                                   *)
(*                                                                         *)
(* A PolyCube is a GRID_SIZE^3 array of 0/1 in the source.  Its extent is  *)
(* fixed, so it is represented by the set of the cells that hold 1, each   *)
(* cell a record [x, y, z].  2D grids change shape under normalize2DGrid   *)
(* and are kept as 0-based arrays: functions 0..rows-1 -> 0..cols-1 ->     *)
(* {0,1}.                                                                  *)
(***************************************************************************)
EXTENDS Integers, Sequences, FiniteSets, TLC

(***************************************************************************)
(* Program constants                                                       *)
(***************************************************************************)
GRID_SIZE == 8

MAX_REGEN_ATTEMPTS == 50

\* Side of the drawing area of a canvas, in pixels; CELL_SIZE is
\* VIEWPORT_SIZE / GRID_SIZE.
VIEWPORT_SIZE == 300

\* Width of the border for axes and labels around the drawing area, in pixels.
AXIS_LABEL_PADDING == 40

Levels == {"LEVEL_1", "LEVEL_2", "LEVEL_3"}

BLOCK_COUNTS_BY_LEVEL ==
    [LEVEL_1 |-> [min |-> 4, max |-> 7],
     LEVEL_2 |-> [min |-> 7, max |-> 10],
     LEVEL_3 |-> [min |-> 10, max |-> 15]]

\* A nullable value is NULL or Some(v); Val(s) is the v of Some(v).
NULL == <<>>

Some(v) == <<v>>

Val(s) == s[1]

(***************************************************************************)
(* Bounds of the model                                                     *)
(***************************************************************************)
\* Math.random() draws for the seed are taken from 0..MaxSeed-1 (the code
\* draws from 0..GRID_SIZE/2-1).
MaxSeed == 2

\* The first FreeSteps growth steps draw among all of the top
\* min(5, candidates); the step after them draws the first or the last of
\* the top; every later step draws index 0.
FreeSteps == 3

\* Input solids of the geometry specifications have at most MaxVoxels cells.
MaxVoxels == 4

\* Calls of generateNewShape in one behaviour.
MaxRequests == 1

\* Solids handed to IsometricView in one behaviour.
MaxShapes == 2

\* Cells filled at one time in the three grids when the learner clicks freely.
MaxFilled == 2

(***************************************************************************)
(* Helpers                                                                 *)
(***************************************************************************)
Min(a, b) == IF a < b THEN a ELSE b

Max(a, b) == IF a > b THEN a ELSE b

Abs(n) == IF n < 0 THEN 0 - n ELSE n

Range(s) == {s[i] : i \in DOMAIN s}

Coords == 0 .. (GRID_SIZE - 1)

Block(x, y, z) == [x |-> x, y |-> y, z |-> z]

\* Position of a cell in the x, y, z loop nest every scan of a PolyCube uses.
ScanKey(b) == (b.x * GRID_SIZE + b.y) * GRID_SIZE + b.z

\* The occupied cells of a PolyCube in the order the loop nest
\* "for x / for y / for z" meets them.
RECURSIVE ScanBlocks(_)
ScanBlocks(polyCube) ==
    IF polyCube = {} THEN <<>>
    ELSE LET first == CHOOSE b \in polyCube :
                          \A c \in polyCube : ScanKey(b) <= ScanKey(c)
         IN <<first>> \o ScanBlocks(polyCube \ {first})

(***************************************************************************)
(* shapeGenerator: normalizePolyCube                                       *)
(***************************************************************************)
\* The minimum of one coordinate over the blocks, starting from GRID_SIZE.
RECURSIVE MinCoord(_, _, _)
MinCoord(blocks, axis, acc) ==
    IF blocks = <<>> THEN acc
    ELSE MinCoord(Tail(blocks), axis, Min(acc, Head(blocks)[axis]))

\* The maximum of one coordinate over the blocks, starting from -1.
RECURSIVE MaxCoord(_, _, _)
MaxCoord(blocks, axis, acc) ==
    IF blocks = <<>> THEN acc
    ELSE MaxCoord(Tail(blocks), axis, Max(acc, Head(blocks)[axis]))

\* normalizePolyCube that shifts along x and y only.
normalizePolyCubeKeepingZ(polyCube) ==
    LET blocks == ScanBlocks(polyCube)
        minX == MinCoord(blocks, "x", GRID_SIZE)
        minY == MinCoord(blocks, "y", GRID_SIZE)
    IN { Block(blocks[i].x - minX, blocks[i].y - minY, blocks[i].z) :
           i \in DOMAIN blocks }

\* normalizePolyCube that moves the blocks one cell towards the origin.
normalizePolyCubeByOneCell(polyCube) ==
    LET blocks == ScanBlocks(polyCube)
        minX == Min(1, MinCoord(blocks, "x", GRID_SIZE))
        minY == Min(1, MinCoord(blocks, "y", GRID_SIZE))
        minZ == Min(1, MinCoord(blocks, "z", GRID_SIZE))
    IN { Block(blocks[i].x - minX, blocks[i].y - minY, blocks[i].z - minZ) :
           i \in DOMAIN blocks }

\* normalizePolyCube that returns its argument unshifted.
normalizePolyCubeUnshifted(polyCube) == polyCube

normalizePolyCube(polyCube) ==
    LET blocks == ScanBlocks(polyCube)
        minX == MinCoord(blocks, "x", GRID_SIZE)
        minY == MinCoord(blocks, "y", GRID_SIZE)
        minZ == MinCoord(blocks, "z", GRID_SIZE)
    IN { Block(blocks[i].x - minX, blocks[i].y - minY, blocks[i].z - minZ) :
           i \in DOMAIN blocks }

(***************************************************************************)
(* projectionCalculator: calculateDimensions                               *)
(***************************************************************************)
\* calculateDimensions that returns max - min on every axis.
calculateDimensionsExclusive(polyCube) ==
    LET blocks == ScanBlocks(polyCube)
        minX == MinCoord(blocks, "x", GRID_SIZE)
        maxX == MaxCoord(blocks, "x", -1)
        minY == MinCoord(blocks, "y", GRID_SIZE)
        maxY == MaxCoord(blocks, "y", -1)
        minZ == MinCoord(blocks, "z", GRID_SIZE)
        maxZ == MaxCoord(blocks, "z", -1)
    IN IF maxX = -1
       THEN [width |-> 0, height |-> 0, depth |-> 0]
       ELSE [width  |-> maxX - minX,
             height |-> maxY - minY,
             depth  |-> maxZ - minZ]

calculateDimensions(polyCube) ==
    LET blocks == ScanBlocks(polyCube)
        minX == MinCoord(blocks, "x", GRID_SIZE)
        maxX == MaxCoord(blocks, "x", -1)
        minY == MinCoord(blocks, "y", GRID_SIZE)
        maxY == MaxCoord(blocks, "y", -1)
        minZ == MinCoord(blocks, "z", GRID_SIZE)
        maxZ == MaxCoord(blocks, "z", -1)
    IN IF maxX = -1
       THEN [width |-> 0, height |-> 0, depth |-> 0]
       ELSE [width  |-> maxX - minX + 1,
             height |-> maxY - minY + 1,
             depth  |-> maxZ - minZ + 1]

(***************************************************************************)
(* projectionCalculator: createEmptyGrid, calculateOrthographicProjections *)
(***************************************************************************)
ViewTypes == {"front", "top", "side"}

createEmptyGrid(rows, cols) ==
    [r \in 0 .. (rows - 1) |-> [c \in 0 .. (cols - 1) |-> 0]]

\* view[row][col] = 1 behind the range guard of the projection loop.
MarkCell(view, row, col) ==
    IF row >= 0 /\ row < GRID_SIZE /\ col >= 0 /\ col < GRID_SIZE
    THEN [view EXCEPT ![row][col] = 1]
    ELSE view

\* ProjectionOffsets with the halves rounded up.
ProjectionOffsetsRoundedUp(dimensions) ==
    [frontOffsets |-> [x |-> (GRID_SIZE - dimensions.width + 1) \div 2,
                       y |-> (GRID_SIZE - dimensions.height + 1) \div 2],
     topOffsets   |-> [x |-> (GRID_SIZE - dimensions.depth + 1) \div 2,
                       y |-> (GRID_SIZE - dimensions.width + 1) \div 2],
     sideOffsets  |-> [x |-> (GRID_SIZE - dimensions.depth + 1) \div 2,
                       y |-> (GRID_SIZE - dimensions.height + 1) \div 2]]

\* ProjectionOffsets that start every view at the middle of the grid,
\* whatever the dimensions.
ProjectionOffsetsFromTheMiddle(dimensions) ==
    [frontOffsets |-> [x |-> GRID_SIZE \div 2, y |-> GRID_SIZE \div 2],
     topOffsets   |-> [x |-> GRID_SIZE \div 2, y |-> GRID_SIZE \div 2],
     sideOffsets  |-> [x |-> GRID_SIZE \div 2, y |-> GRID_SIZE \div 2]]

\* Centering offsets of the three views, {x: column offset, y: row offset}.
ProjectionOffsets(dimensions) ==
    [frontOffsets |-> [x |-> (GRID_SIZE - dimensions.width) \div 2,
                       y |-> (GRID_SIZE - dimensions.height) \div 2],
     topOffsets   |-> [x |-> (GRID_SIZE - dimensions.depth) \div 2,
                       y |-> (GRID_SIZE - dimensions.width) \div 2],
     sideOffsets  |-> [x |-> (GRID_SIZE - dimensions.depth) \div 2,
                       y |-> (GRID_SIZE - dimensions.height) \div 2]]

\* ProjectBlocks that stops at the first block of every front cell: a block
\* behind one already projected leaves the top and side views alone.
RECURSIVE ProjectBlocksNearestOnly(_, _, _)
ProjectBlocksNearestOnly(blocks, offs, views) ==
    IF blocks = <<>> THEN views
    ELSE LET b == Head(blocks)
             frontRow == GRID_SIZE - 1 - (b.y + offs.frontOffsets.y)
             frontCol == b.x + offs.frontOffsets.x
             topRow   == b.x + offs.topOffsets.y
             topCol   == b.z + offs.topOffsets.x
             sideRow  == GRID_SIZE - 1 - (b.y + offs.sideOffsets.y)
             sideCol  == b.z + offs.sideOffsets.x
         IN ProjectBlocksNearestOnly(Tail(blocks), offs,
                IF views.front[frontRow][frontCol] = 1
                THEN views
                ELSE [front |-> MarkCell(views.front, frontRow, frontCol),
                      top   |-> MarkCell(views.top, topRow, topCol),
                      side  |-> MarkCell(views.side, sideRow, sideCol)])

\* The body of the projection loop, run over the occupied cells in scan order.
RECURSIVE ProjectBlocks(_, _, _)
ProjectBlocks(blocks, offs, views) ==
    IF blocks = <<>> THEN views
    ELSE LET b == Head(blocks)
             frontRow == GRID_SIZE - 1 - (b.y + offs.frontOffsets.y)
             frontCol == b.x + offs.frontOffsets.x
             topRow   == b.x + offs.topOffsets.y
             topCol   == b.z + offs.topOffsets.x
             sideRow  == GRID_SIZE - 1 - (b.y + offs.sideOffsets.y)
             sideCol  == b.z + offs.sideOffsets.x
         IN ProjectBlocks(Tail(blocks), offs,
                [front |-> MarkCell(views.front, frontRow, frontCol),
                 top   |-> MarkCell(views.top, topRow, topCol),
                 side  |-> MarkCell(views.side, sideRow, sideCol)])

\* calculateOrthographicProjections without its test for a dimension of 0.
calculateOrthographicProjectionsUnguarded(polyCube, dimensions) ==
    LET empty == [front |-> createEmptyGrid(GRID_SIZE, GRID_SIZE),
                  top   |-> createEmptyGrid(GRID_SIZE, GRID_SIZE),
                  side  |-> createEmptyGrid(GRID_SIZE, GRID_SIZE)]
        offs  == ProjectionOffsets(dimensions)
        views == ProjectBlocks(ScanBlocks(polyCube), offs, empty)
    IN [front |-> views.front, top |-> views.top, side |-> views.side,
        frontOffsets |-> offs.frontOffsets,
        topOffsets   |-> offs.topOffsets,
        sideOffsets  |-> offs.sideOffsets]

calculateOrthographicProjections(polyCube, dimensions) ==
    LET empty == [front |-> createEmptyGrid(GRID_SIZE, GRID_SIZE),
                  top   |-> createEmptyGrid(GRID_SIZE, GRID_SIZE),
                  side  |-> createEmptyGrid(GRID_SIZE, GRID_SIZE)]
        zero  == [x |-> 0, y |-> 0]
    IN IF dimensions.width = 0 \/ dimensions.height = 0 \/ dimensions.depth = 0
       THEN [front |-> empty.front, top |-> empty.top, side |-> empty.side,
             frontOffsets |-> zero, topOffsets |-> zero, sideOffsets |-> zero]
       ELSE LET offs  == ProjectionOffsets(dimensions)
                views == ProjectBlocks(ScanBlocks(polyCube), offs, empty)
            IN [front |-> views.front, top |-> views.top, side |-> views.side,
                frontOffsets |-> offs.frontOffsets,
                topOffsets   |-> offs.topOffsets,
                sideOffsets  |-> offs.sideOffsets]

\* views[`${viewType}Offsets`]
OffsetsOf(views, viewType) ==
    CASE viewType = "front" -> views.frontOffsets
      [] viewType = "top"   -> views.topOffsets
      [] viewType = "side"  -> views.sideOffsets

(***************************************************************************)
(* projectionCalculator: find3DBlocksFor2DCell                             *)
(***************************************************************************)
\* Contributes with the two offsets of the top view exchanged.
ContributesExchangedOffsets(b, viewType, row, col, viewOffsets) ==
    CASE viewType = "front" ->
           /\ b.x = col - viewOffsets.x
           /\ b.y = GRID_SIZE - 1 - row - viewOffsets.y
      [] viewType = "top" ->
           /\ b.x = row - viewOffsets.x
           /\ b.z = col - viewOffsets.y
      [] viewType = "side" ->
           /\ b.z = col - viewOffsets.x
           /\ b.y = GRID_SIZE - 1 - row - viewOffsets.y

\* Contributes without the row flip of the side view.
ContributesSideUnflipped(b, viewType, row, col, viewOffsets) ==
    CASE viewType = "front" ->
           /\ b.x = col - viewOffsets.x
           /\ b.y = GRID_SIZE - 1 - row - viewOffsets.y
      [] viewType = "top" ->
           /\ b.x = row - viewOffsets.y
           /\ b.z = col - viewOffsets.x
      [] viewType = "side" ->
           /\ b.z = col - viewOffsets.x
           /\ b.y = row - viewOffsets.y

\* The switch of find3DBlocksFor2DCell: does block b contribute to the cell?
Contributes(b, viewType, row, col, viewOffsets) ==
    CASE viewType = "front" ->
           /\ b.x = col - viewOffsets.x
           /\ b.y = GRID_SIZE - 1 - row - viewOffsets.y
      [] viewType = "top" ->
           /\ b.x = row - viewOffsets.y
           /\ b.z = col - viewOffsets.x
      [] viewType = "side" ->
           /\ b.z = col - viewOffsets.x
           /\ b.y = GRID_SIZE - 1 - row - viewOffsets.y

\* contributingBlocks, in the order they are pushed.
find3DBlocksFor2DCell(polyCube, viewType, row, col, viewOffsets, dimensions) ==
    SelectSeq(ScanBlocks(polyCube),
              LAMBDA b : Contributes(b, viewType, row, col, viewOffsets))

(***************************************************************************)
(* App: normalize2DGrid                                                    *)
(***************************************************************************)
\* grid[r] && grid[r][c] === 1
IsFilled(grid, r, c) ==
    /\ r \in DOMAIN grid
    /\ c \in DOMAIN grid[r]
    /\ grid[r][c] = 1

\* filledCells, in the order of the loop nest "for r / for c".
RECURSIVE FilledCells(_, _)
FilledCells(grid, k) ==
    IF k = GRID_SIZE * GRID_SIZE THEN <<>>
    ELSE LET r == k \div GRID_SIZE
             c == k % GRID_SIZE
         IN (IF IsFilled(grid, r, c) THEN <<[r |-> r, c |-> c]>> ELSE <<>>)
              \o FilledCells(grid, k + 1)

\* filledCells.forEach: normalizedGrid[r - minR][c - minC] = 1
RECURSIVE ShiftCells(_, _, _, _)
ShiftCells(cells, minR, minC, grid) ==
    IF cells = <<>> THEN grid
    ELSE ShiftCells(Tail(cells), minR, minC,
             [grid EXCEPT ![Head(cells).r - minR][Head(cells).c - minC] = 1])

normalize2DGrid(grid) ==
    LET filledCells == FilledCells(grid, 0)
        minR == MinCoord(filledCells, "r", GRID_SIZE)
        maxR == MaxCoord(filledCells, "r", -1)
        minC == MinCoord(filledCells, "c", GRID_SIZE)
        maxC == MaxCoord(filledCells, "c", -1)
        width  == maxC - minC + 1
        height == maxR - minR + 1
    IN IF Len(filledCells) = 0
       THEN [normalizedGrid |-> <<>>,
             dimensions |-> [width |-> 0, height |-> 0]]
       ELSE [normalizedGrid |->
                 ShiftCells(filledCells, minR, minC,
                            createEmptyGrid(height, width)),
             dimensions |-> [width |-> width, height |-> height]]

(***************************************************************************)
(* State                                                                   *)
(***************************************************************************)
VARIABLES
    \* generateContiguousShape, while it runs
    pc,              \* "idle" | "seed" | "grow" | "check": the handler's position
    level,           \* effectiveLevel / the level parameter
    targetBlocks,
    attempts,
    existingBlocks,  \* tempBlockMap holds exactly the keys of these blocks
    \* App
    newPolyCube,     \* what the last generateContiguousShape call returned
    currentShape,
    studentDrawings,
    feedback,
    isLoading,
    requests,        \* calls of generateNewShape that ran the generator step by step
    currentLevel,
    isTutoring,
    isProgressionActive,
    currentProgressionIndex,
    showCompletionBadge,
    shapeEffectPending, \* currentLevel or isProgressionActive changed since
                        \* the effect that generates a shape ran last
    tutorCall,       \* NULL, or the arguments of the askTutor call in flight
    lastEvent,       \* the handler that ran last
    \* The geometry pipeline applied to one input grid
    base,            \* input: a solid with minimum coordinate 0 on every axis
    grid,            \* input: a translate of base inside the grid
    stage,           \* which functions have been applied
    norm,            \* normalizePolyCube(grid)
    renorm,          \* normalizePolyCube(norm), once it was computed
    dims,            \* calculateDimensions(norm)
    proj,            \* calculateOrthographicProjections(norm, dims)
    baseProj,        \* the same pipeline applied to base
    flat,            \* normalize2DGrid of one view of proj and of baseProj
    query,           \* [viewType, row, col] handed to find3DBlocksFor2DCell
    found,           \* what find3DBlocksFor2DCell returned
    \* IsometricView
    scene,           \* polyCube, rotationX, rotationY handed to the drawing code
    canvas,          \* what was drawn, in the order it was drawn
    polyCubeProp,    \* the polyCube prop: [id, polyCube], id tells objects apart
    rotateXAngle,    \* pitch, in hundredths of a radian
    rotateYAngle,    \* yaw, in hundredths of a radian
    isDragging,
    startDragRef,    \* NULL or [clientX, initialRotateX, initialRotateY]
    prevPolyCubeRef, \* the polyCube the effect saw last, NULL at first
    effectPending,   \* a dependency of the effect changed since its last run
    drawnProp        \* the prop whose polyCube the canvas shows

genVars == <<pc, level, targetBlocks, attempts, existingBlocks>>

sessionVars == <<currentLevel, isTutoring, isProgressionActive,
                 currentProgressionIndex, showCompletionBadge,
                 shapeEffectPending, tutorCall, lastEvent>>

sessionVarsButEvent == <<currentLevel, isTutoring, isProgressionActive,
                         currentProgressionIndex, showCompletionBadge,
                         shapeEffectPending, tutorCall>>

appVars == <<newPolyCube, currentShape, studentDrawings, feedback, isLoading,
             requests, sessionVars>>

geomVars == <<base, grid, stage, norm, renorm, dims, proj, baseProj, flat,
              query, found>>

viewVars == <<polyCubeProp, rotateXAngle, rotateYAngle, isDragging,
              startDragRef, prevPolyCubeRef, effectPending, drawnProp>>

renderVars == <<scene, canvas, viewVars>>

vars == <<genVars, appVars, geomVars, renderVars>>

(***************************************************************************)
(* shapeGenerator: generateContiguousShape                                 *)
(***************************************************************************)
\* neighbors with the step up replaced by a step of two cells.
neighborsSkippingUp ==
    << [dx |-> 1, dy |-> 0, dz |-> 0], [dx |-> -1, dy |-> 0, dz |-> 0],
       [dx |-> 0, dy |-> 2, dz |-> 0], [dx |-> 0, dy |-> -1, dz |-> 0],
       [dx |-> 0, dy |-> 0, dz |-> 1], [dx |-> 0, dy |-> 0, dz |-> -1] >>

\* The neighbors array, in its order.
neighbors ==
    << [dx |-> 1, dy |-> 0, dz |-> 0], [dx |-> -1, dy |-> 0, dz |-> 0],
       [dx |-> 0, dy |-> 1, dz |-> 0], [dx |-> 0, dy |-> -1, dz |-> 0],
       [dx |-> 0, dy |-> 0, dz |-> 1], [dx |-> 0, dy |-> 0, dz |-> -1] >>

\* The bounds check of the growth loop.
InBounds(nx, ny, nz) ==
    /\ nx >= 0 /\ nx < GRID_SIZE
    /\ ny >= 0 /\ ny < GRID_SIZE
    /\ nz >= 0 /\ nz < GRID_SIZE

\* tempBlockMap: the keys "x,y,z" of the placed blocks.  A key determines its
\* block, so the map is kept as the set of the blocks themselves.
TempBlockMap(existing) == Range(existing)

\* AddPoint without the tempBlockMap test: placed cells are candidates again.
AddPointIgnoringPlaced(potentialPoints, tempBlockMap, b, n) ==
    LET p == Block(b.x + n.dx, b.y + n.dy, b.z + n.dz)
    IN IF /\ InBounds(p.x, p.y, p.z)
          /\ \A i \in DOMAIN potentialPoints : potentialPoints[i] # p
       THEN Append(potentialPoints, p)
       ELSE potentialPoints

\* AddPoint with the tempBlockMap test inverted: only placed cells are pushed.
AddPointAmongPlaced(potentialPoints, tempBlockMap, b, n) ==
    LET p == Block(b.x + n.dx, b.y + n.dy, b.z + n.dz)
    IN IF /\ InBounds(p.x, p.y, p.z)
          /\ p \in tempBlockMap
          /\ \A i \in DOMAIN potentialPoints : potentialPoints[i] # p
       THEN Append(potentialPoints, p)
       ELSE potentialPoints

\* The body of the inner loop: the bounds check, the two membership tests, the
\* push.  potentialPointsSet holds exactly the keys of potentialPoints.
AddPoint(potentialPoints, tempBlockMap, b, n) ==
    LET p == Block(b.x + n.dx, b.y + n.dy, b.z + n.dz)
    IN IF /\ InBounds(p.x, p.y, p.z)
          /\ p \notin tempBlockMap
          /\ \A i \in DOMAIN potentialPoints : potentialPoints[i] # p
       THEN Append(potentialPoints, p)
       ELSE potentialPoints

\* The inner loop over the neighbors array, for one existing block.
RECURSIVE AddNeighbors(_, _, _, _)
AddNeighbors(potentialPoints, tempBlockMap, b, j) ==
    IF j > Len(neighbors) THEN potentialPoints
    ELSE AddNeighbors(AddPoint(potentialPoints, tempBlockMap, b, neighbors[j]),
                      tempBlockMap, b, j + 1)

\* The outer loop over existingBlocks.
RECURSIVE CollectPoints(_, _, _, _)
CollectPoints(existing, tempBlockMap, i, potentialPoints) ==
    IF i > Len(existing) THEN potentialPoints
    ELSE CollectPoints(existing, tempBlockMap, i + 1,
             AddNeighbors(potentialPoints, tempBlockMap, existing[i], 1))

\* potentialPoints.sort((a, b) => b.y - a.y): Array.prototype.sort is stable,
\* so the points end up grouped by descending y, each group in its old order.
RECURSIVE SortByHeight(_, _)
SortByHeight(points, y) ==
    IF y < 0 THEN <<>>
    ELSE SelectSeq(points, LAMBDA p : p.y = y) \o SortByHeight(points, y - 1)

\* potentialPoints of one growth step, left in the order of the pushes.
PotentialPointsUnsorted(existing) ==
    CollectPoints(existing, TempBlockMap(existing), 1, <<>>)

\* potentialPoints of one growth step, after the sort.
PotentialPoints(existing) ==
    SortByHeight(CollectPoints(existing, TempBlockMap(existing), 1, <<>>),
                 GRID_SIZE - 1)

\* Math.floor(Math.random() * Math.min(potentialPoints.length, 5)), with the
\* draws of the model's bounds.
PickChoices(existing, potentialPoints) ==
    LET top == Min(Len(potentialPoints), 5)
    IN IF Len(existing) <= FreeSteps THEN 0 .. (top - 1)
       ELSE IF Len(existing) = FreeSteps + 1 THEN {0, top - 1} \ {-1}
       ELSE 0 .. (Min(top, 1) - 1)

\* existingBlocks.forEach(({x, y, z}) => currentPolyCube[x][y][z] = 1)
ToPolyCube(existing) == Range(existing)

\* The dimension check that rejects an attempt.
\* The dimension check with >= in place of >.
TooLargeOrEmptyAtTheLimit(dimensions) ==
    \/ dimensions.width >= GRID_SIZE
    \/ dimensions.height >= GRID_SIZE
    \/ dimensions.depth >= GRID_SIZE
    \/ dimensions.width = 0

TooLargeOrEmpty(dimensions) ==
    \/ dimensions.width > GRID_SIZE
    \/ dimensions.height > GRID_SIZE
    \/ dimensions.depth > GRID_SIZE
    \/ dimensions.width = 0

EmptyDrawings ==
    [front |-> createEmptyGrid(GRID_SIZE, GRID_SIZE),
     top   |-> createEmptyGrid(GRID_SIZE, GRID_SIZE),
     side  |-> createEmptyGrid(GRID_SIZE, GRID_SIZE)]

\* generateNewShape from the return of generateContiguousShape to its end.
AfterGenerate(result) ==
    /\ UNCHANGED sessionVars
    /\ newPolyCube' = result
    /\ isLoading' = FALSE
    /\ pc' = "idle"
    /\ IF result = NULL
       THEN /\ feedback' = Some([type |-> "error",
                                  text |-> "Failed to generate a shape"])
            /\ UNCHANGED <<currentShape, studentDrawings>>
       ELSE LET dimensions == calculateDimensions(Val(result))
            IN /\ currentShape' =
                     Some([polyCube   |-> Val(result),
                           views      |-> calculateOrthographicProjections(
                                              Val(result), dimensions),
                           dimensions |-> dimensions])
               /\ studentDrawings' = EmptyDrawings
               /\ UNCHANGED feedback

\* generateNewShape up to the first random draw inside the attempt loop:
\* the state resets, the target count is drawn, attempts = 0.
GenerateNewShape(levelToGenerate) ==
    /\ pc = "idle"
    /\ requests < MaxRequests
    /\ requests' = requests + 1
    /\ isLoading' = TRUE
    /\ feedback' = NULL
    /\ showCompletionBadge' = FALSE
    /\ level' = levelToGenerate
    /\ \E target \in BLOCK_COUNTS_BY_LEVEL[levelToGenerate].min ..
                     BLOCK_COUNTS_BY_LEVEL[levelToGenerate].max :
          targetBlocks' = target
    /\ attempts' = 0
    /\ existingBlocks' = <<>>
    /\ pc' = "seed"
    /\ UNCHANGED <<newPolyCube, currentShape, studentDrawings, geomVars,
                   renderVars>>
    /\ UNCHANGED <<currentLevel, isTutoring, isProgressionActive,
                   currentProgressionIndex, shapeEffectPending, tutorCall,
                   lastEvent>>

\* The start of an attempt: the seed block at y = 0.
PlaceSeed(startX, startZ) ==
    /\ pc = "seed"
    /\ existingBlocks' = <<Block(startX, 0, startZ)>>
    /\ pc' = "grow"
    /\ UNCHANGED <<level, targetBlocks, attempts, appVars, geomVars,
                   renderVars>>

\* One iteration of the growth loop: it adds a block, or breaks out of the
\* loop when there is no candidate.
Grow ==
    /\ pc = "grow"
    /\ Len(existingBlocks) < targetBlocks
    /\ LET potentialPoints == PotentialPoints(existingBlocks)
       IN IF Len(potentialPoints) = 0
          THEN /\ pc' = "check"
               /\ UNCHANGED existingBlocks
          ELSE /\ \E pick \in PickChoices(existingBlocks, potentialPoints) :
                     existingBlocks' =
                         Append(existingBlocks, potentialPoints[pick + 1])
               /\ UNCHANGED pc
    /\ UNCHANGED <<level, targetBlocks, attempts, appVars, geomVars,
                   renderVars>>

\* After the growth loop (target reached, or the break): the attempt is
\* checked; the function returns or starts the next attempt.
FinishAttempt ==
    /\ \/ pc = "check"
       \/ pc = "grow" /\ Len(existingBlocks) >= targetBlocks
    /\ LET min == BLOCK_COUNTS_BY_LEVEL[level].min
           normalizedPolyCube == normalizePolyCube(ToPolyCube(existingBlocks))
           dimensions == calculateDimensions(normalizedPolyCube)
           rejected == \/ Len(existingBlocks) < min
                       \/ TooLargeOrEmpty(dimensions)
       IN IF rejected
          THEN /\ attempts' = attempts + 1
               /\ IF attempts + 1 < MAX_REGEN_ATTEMPTS
                  THEN /\ pc' = "seed"
                       /\ UNCHANGED appVars
                  ELSE /\ AfterGenerate(NULL)
                       /\ UNCHANGED requests
          ELSE /\ AfterGenerate(Some(normalizedPolyCube))
               /\ UNCHANGED <<attempts, requests>>
    /\ UNCHANGED <<level, targetBlocks, existingBlocks, geomVars, renderVars>>

(***************************************************************************)
(* Inputs of the geometry specifications                                   *)
(***************************************************************************)
Translate(cells, dx, dy, dz) ==
    {Block(b.x + dx, b.y + dy, b.z + dz) : b \in cells}

SetMin(S) == CHOOSE m \in S : \A n \in S : m <= n

SetMax(S) == CHOOSE m \in S : \A n \in S : m >= n

\* The translate of a set of cells whose minimum coordinates are all 0.
Canon(cells) ==
    IF cells = {} THEN {}
    ELSE Translate(cells, 0 - SetMin({b.x : b \in cells}),
                          0 - SetMin({b.y : b \in cells}),
                          0 - SetMin({b.z : b \in cells}))

\* The empty cells 6-adjacent to a set of cells (coordinates may be negative).
Adjacent(cells) ==
    {Block(b.x + neighbors[j].dx, b.y + neighbors[j].dy, b.z + neighbors[j].dz) :
        b \in cells, j \in DOMAIN neighbors} \ cells

\* All 6-connected solids of n cells, up to translation.
RECURSIVE Polycubes(_)
Polycubes(n) ==
    IF n = 1 THEN {{Block(0, 0, 0)}}
    ELSE {Canon(s \cup {c}) : <<s, c>> \in
             {<<t, d>> \in Polycubes(n - 1) \X Translate(
                   {Block(x, y, z) : x, y, z \in 0 .. n}, -1, -1, -1) :
                 d \in Adjacent(t)}}

\* Three bars from the origin, one along each axis.
Tripod(a, b, c) ==
    {Block(i, 0, 0) : i \in 0 .. (a - 1)} \cup
    {Block(0, j, 0) : j \in 0 .. (b - 1)} \cup
    {Block(0, 0, k) : k \in 0 .. (c - 1)}

ArmLengths == {1, GRID_SIZE \div 2 + 1, GRID_SIZE}

\* Two cells that do not touch.
Scattered ==
    {Canon({Block(0, 0, 0), Block(dx, dy, dz)}) : dx, dy, dz \in -2 .. 2}
      \ (Polycubes(1) \cup Polycubes(2))

\* Non-empty solids with minimum coordinate 0 on every axis.
InputSolids ==
    UNION {Polycubes(n) : n \in 1 .. MaxVoxels}
      \cup {Tripod(a, b, c) : a, b, c \in ArmLengths}
      \cup Scattered

\* Shifts along one axis that keep an extent of size inside the grid: none, one
\* cell, and up to the far side.
AxisShifts(size) == {d \in {0, 1, GRID_SIZE - size} : d + size <= GRID_SIZE}

Extent(cells, axis) ==
    IF cells = {} THEN 0
    ELSE SetMax({b[axis] : b \in cells}) - SetMin({b[axis] : b \in cells}) + 1

Translates(cells) ==
    {Translate(cells, dx, dy, dz) :
        dx \in AxisShifts(Extent(cells, "x")),
        dy \in AxisShifts(Extent(cells, "y")),
        dz \in AxisShifts(Extent(cells, "z"))}

(***************************************************************************)
(* The geometry pipeline: the tail of generateContiguousShape and            *)
(* generateNewShape (normalize, dimensions, project), find3DBlocksFor2DCell *)
(* and normalize2DGrid, each applied to the output of the one before.       *)
(***************************************************************************)
NoViews == calculateOrthographicProjections({}, calculateDimensions({}))

NoFlat == [viewType |-> "none", ofGrid |-> NULL, ofBase |-> NULL, again |-> NULL]

NoQuery == [viewType |-> "none", row |-> 0, col |-> 0]

GeomIdle ==
    /\ base = {}
    /\ grid = {}
    /\ stage = "none"
    /\ norm = {}
    /\ renorm = NULL
    /\ dims = calculateDimensions({})
    /\ proj = NoViews
    /\ baseProj = NoViews
    /\ flat = NoFlat
    /\ query = NoQuery
    /\ found = <<>>

\* Nothing handed to the drawing code, nothing drawn.
NoScene == [polyCube |-> {}, rotationX |-> [cos |-> 5, sin |-> 0],
            rotationY |-> [cos |-> 5, sin |-> 0]]

BlankCanvas == [drawn |-> FALSE, placeholder |-> FALSE, faces |-> <<>>]

\* No prop yet: polyCube is null.
NoProp == [id |-> 0, polyCube |-> NULL]

\* IsometricView as it is mounted: angles 0, nothing seen, nothing drawn, the
\* effect of the first render still to run.
ViewMounted ==
    /\ polyCubeProp = NoProp
    /\ rotateXAngle = 0
    /\ rotateYAngle = 0
    /\ isDragging = FALSE
    /\ startDragRef = NULL
    /\ prevPolyCubeRef = NULL
    /\ effectPending = TRUE
    /\ drawnProp = [id |-> -1, polyCube |-> NULL]

RenderIdle ==
    /\ scene = NoScene
    /\ canvas = BlankCanvas
    /\ ViewMounted

GenIdle ==
    /\ pc = "idle"
    /\ level = "LEVEL_1"
    /\ targetBlocks = 0
    /\ attempts = 0
    /\ existingBlocks = <<>>
    /\ newPolyCube = NULL
    /\ currentShape = NULL
    /\ studentDrawings = EmptyDrawings
    /\ feedback = NULL
    /\ isLoading = FALSE
    /\ requests = 0
    /\ currentLevel = "LEVEL_1"
    /\ isTutoring = FALSE
    /\ isProgressionActive = FALSE
    /\ currentProgressionIndex = -1
    /\ showCompletionBadge = FALSE
    /\ shapeEffectPending = FALSE
    /\ tutorCall = NULL
    /\ lastEvent = "none"

\* normalizePolyCube(grid), then calculateDimensions of the result.
NormalizeGrid ==
    /\ stage = "input"
    /\ stage' = "normalized"
    /\ norm' = normalizePolyCube(grid)
    /\ dims' = calculateDimensions(norm')
    /\ UNCHANGED <<base, grid, renorm, proj, baseProj, flat, query, found>>
    /\ UNCHANGED <<genVars, appVars, renderVars>>

\* normalizePolyCube applied to its own result.
Renormalize ==
    /\ stage = "normalized"
    /\ renorm = NULL
    /\ renorm' = Some(normalizePolyCube(norm))
    /\ UNCHANGED <<base, grid, stage, norm, dims, proj, baseProj, flat, query,
                   found>>
    /\ UNCHANGED <<genVars, appVars, renderVars>>

\* calculateOrthographicProjections of the normalized grid; base goes through
\* the same three functions.
Project ==
    /\ stage = "normalized"
    /\ stage' = "projected"
    /\ proj' = calculateOrthographicProjections(norm, dims)
    /\ baseProj' = LET normalizedBase == normalizePolyCube(base)
                   IN calculateOrthographicProjections(
                          normalizedBase, calculateDimensions(normalizedBase))
    /\ UNCHANGED <<base, grid, norm, renorm, dims, flat, query, found>>
    /\ UNCHANGED <<genVars, appVars, renderVars>>

\* normalize2DGrid of one view, of both projections.
Flatten(viewType) ==
    /\ stage = "projected"
    /\ stage' = "flat"
    /\ flat' = [viewType |-> viewType,
                ofGrid   |-> Some(normalize2DGrid(proj[viewType])),
                ofBase   |-> Some(normalize2DGrid(baseProj[viewType])),
                again    |-> NULL]
    /\ UNCHANGED <<base, grid, norm, renorm, dims, proj, baseProj, query, found>>
    /\ UNCHANGED <<genVars, appVars, renderVars>>

\* normalize2DGrid applied to the normalizedGrid it returned.
FlattenAgain ==
    /\ stage = "flat"
    /\ stage' = "flat2"
    /\ flat' = [flat EXCEPT
                  !.again = Some(normalize2DGrid(Val(flat.ofGrid).normalizedGrid))]
    /\ UNCHANGED <<base, grid, norm, renorm, dims, proj, baseProj, query, found>>
    /\ UNCHANGED <<genVars, appVars, renderVars>>

\* find3DBlocksFor2DCell for one cell of one view, with that view's offsets.
Unproject(viewType, row, col) ==
    /\ stage = "projected"
    /\ stage' = "queried"
    /\ query' = [viewType |-> viewType, row |-> row, col |-> col]
    /\ found' = find3DBlocksFor2DCell(norm, viewType, row, col,
                                      OffsetsOf(proj, viewType), dims)
    /\ UNCHANGED <<base, grid, norm, renorm, dims, proj, baseProj, flat>>
    /\ UNCHANGED <<genVars, appVars, renderVars>>

\* Normalization: any grid that is a translate of an input solid, or empty.
InitNorm ==
    /\ GenIdle
    /\ RenderIdle
    /\ base \in InputSolids \cup {{}}
    /\ grid \in Translates(base)
    /\ stage = "input"
    /\ norm = {}
    /\ renorm = NULL
    /\ dims = calculateDimensions({})
    /\ proj = NoViews
    /\ baseProj = NoViews
    /\ flat = NoFlat
    /\ query = NoQuery
    /\ found = <<>>

NextNorm ==
    \/ NormalizeGrid
    \/ Renormalize
    \/ Project
    \/ \E viewType \in ViewTypes : Flatten(viewType)
    \/ FlattenAgain

SpecNorm == InitNorm /\ [][NextNorm]_vars

\* Projection and its inverse: the input solids as they are.
InitProj ==
    /\ GenIdle
    /\ RenderIdle
    /\ base \in InputSolids
    /\ grid = base
    /\ stage = "input"
    /\ norm = {}
    /\ renorm = NULL
    /\ dims = calculateDimensions({})
    /\ proj = NoViews
    /\ baseProj = NoViews
    /\ flat = NoFlat
    /\ query = NoQuery
    /\ found = <<>>

NextProj ==
    \/ NormalizeGrid
    \/ Project
    \/ \E viewType \in ViewTypes, row, col \in Coords :
          Unproject(viewType, row, col)

SpecProj == InitProj /\ [][NextProj]_vars

(***************************************************************************)
(* The two functions of projectionCalculator called with any arguments:    *)
(* a solid anywhere in the grid, dimensions that need not be the solid's   *)
(* (any of them may be 0), and a cell on the grid or next to it.           *)
(***************************************************************************)
\* One voxel at the origin, one away from it, two voxels behind each other
\* along z, and a solid in the near and in the far corner of the grid.
InverseSolids ==
    {{Block(0, 0, 0)},
     {Block(2, 5, 7)},
     {Block(1, 1, 0), Block(1, 1, 3)},
     Tripod(2, 2, 2),
     Translate(Tripod(2, 2, 2), GRID_SIZE - 2, GRID_SIZE - 2, GRID_SIZE - 2)}

\* Dimensions handed to calculateOrthographicProjections.
DimensionChoices ==
    {calculateDimensions(grid)}
       \cup [width  : {0, 2, GRID_SIZE},
             height : {0, 2, GRID_SIZE},
             depth  : {0, 2, GRID_SIZE}]

\* Rows and columns handed to find3DBlocksFor2DCell.
QueryCoords == -1 .. GRID_SIZE

\* calculateOrthographicProjections(grid, dimensions)
ProjectWith(dimensions) ==
    /\ stage = "input"
    /\ stage' = "projectedWith"
    /\ dims' = dimensions
    /\ proj' = calculateOrthographicProjections(grid, dimensions)
    /\ UNCHANGED <<base, grid, norm, renorm, baseProj, flat, query, found>>
    /\ UNCHANGED <<genVars, appVars, renderVars>>

\* find3DBlocksFor2DCell(grid, viewType, row, col, offsets of proj, dims)
UnprojectWith(viewType, row, col) ==
    /\ stage = "projectedWith"
    /\ stage' = "queriedWith"
    /\ query' = [viewType |-> viewType, row |-> row, col |-> col]
    /\ found' = find3DBlocksFor2DCell(grid, viewType, row, col,
                                      OffsetsOf(proj, viewType), dims)
    /\ UNCHANGED <<base, grid, norm, renorm, dims, proj, baseProj, flat>>
    /\ UNCHANGED <<genVars, appVars, renderVars>>

InitInverse ==
    /\ GenIdle
    /\ RenderIdle
    /\ base \in InverseSolids
    /\ grid = base
    /\ stage = "input"
    /\ norm = {}
    /\ renorm = NULL
    /\ dims = calculateDimensions({})
    /\ proj = NoViews
    /\ baseProj = NoViews
    /\ flat = NoFlat
    /\ query = NoQuery
    /\ found = <<>>

NextInverse ==
    \/ \E dimensions \in DimensionChoices : ProjectWith(dimensions)
    \/ \E viewType \in ViewTypes, row, col \in QueryCoords :
          UnprojectWith(viewType, row, col)

SpecInverse == InitInverse /\ [][NextInverse]_vars

(***************************************************************************)
(* The generator and its caller                                            *)
(***************************************************************************)
Init ==
    /\ GenIdle
    /\ GeomIdle
    /\ RenderIdle

Next ==
    \/ \E l \in Levels : GenerateNewShape(l)
    \/ \E startX, startZ \in 0 .. (Min(GRID_SIZE \div 2, MaxSeed) - 1) :
          PlaceSeed(startX, startZ)
    \/ Grow
    \/ FinishAttempt

Spec == Init /\ [][Next]_vars

(***************************************************************************)
(* IsometricView: applyRotation, drawIsometricBlockFaces and the drawing   *)
(* pass of the component's effect.                                         *)
(*                                                                         *)
(* An angle is the pair of its cosine and sine in fifths, so the rotations *)
(* are computed exactly: the angles modelled are 0, 90, 180, 270 degrees   *)
(* and the eight with cosine and sine among 3/5 and 4/5 in absolute value. *)
(* applyRotation therefore returns coordinates in 25ths.  Only the order   *)
(* of depths and the sign of the dot product are read from them.  Screen   *)
(* coordinates (map3DToRawIsometric, the centering translation) and the    *)
(* axes drawn under the blocks are left out.                               *)
(***************************************************************************)
Angles ==
    {a \in [cos : -5 .. 5, sin : -5 .. 5] : a.cos * a.cos + a.sin * a.sin = 25}

\* The faces of the unit cube in the order they are drawn; normal is local.
UNIT_CUBE_FACES ==
    << [name |-> "top",    corners |-> <<2, 4, 7, 6>>,
        normal |-> [x |-> 0, y |-> 1, z |-> 0]],
       [name |-> "bottom", corners |-> <<0, 3, 5, 1>>,
        normal |-> [x |-> 0, y |-> -1, z |-> 0]],
       [name |-> "front",  corners |-> <<3, 6, 7, 5>>,
        normal |-> [x |-> 0, y |-> 0, z |-> 1]],
       [name |-> "back",   corners |-> <<0, 1, 4, 2>>,
        normal |-> [x |-> 0, y |-> 0, z |-> -1]],
       [name |-> "right",  corners |-> <<1, 5, 7, 4>>,
        normal |-> [x |-> 1, y |-> 0, z |-> 0]],
       [name |-> "left",   corners |-> <<0, 2, 6, 3>>,
        normal |-> [x |-> -1, y |-> 0, z |-> 0]] >>

\* A view direction that looks along negative z.
VIEW_DIRECTION_VECTOR_FromBehind == [x |-> 1, y |-> 1, z |-> -1]

\* Twice VIEW_DIRECTION_VECTOR.
VIEW_DIRECTION_VECTOR == [x |-> 1, y |-> 1, z |-> 1]

\* Yaw about the y axis, then pitch about the x axis; the result is in 25ths
\* of the unit of x, y, z.
applyRotation(x, y, z, rotationX, rotationY) ==
    LET cosY == rotationY.cos
        sinY == rotationY.sin
        xYaw == x * cosY + z * sinY
        zYaw == (0 - x) * sinY + z * cosY
        yYaw == 5 * y
        cosX == rotationX.cos
        sinX == rotationX.sin
    IN [x |-> 5 * xYaw,
        y |-> yYaw * cosX - zYaw * sinX,
        z |-> yYaw * sinX + zYaw * cosX]

rotateVector(vx, vy, vz, rotationX, rotationY) ==
    applyRotation(vx, vy, vz, rotationX, rotationY)

\* isNaturallyExposed that holds for every face.
isNaturallyExposedEverywhere(polyCube, block, face) == TRUE

\* No block of the unrotated polyCube lies next to the face.
isNaturallyExposed(polyCube, block, face) ==
    LET neighborX == block.x + face.normal.x
        neighborY == block.y + face.normal.y
        neighborZ == block.z + face.normal.z
    IN \/ neighborX < 0 \/ neighborX >= GRID_SIZE
       \/ neighborY < 0 \/ neighborY >= GRID_SIZE
       \/ neighborZ < 0 \/ neighborZ >= GRID_SIZE
       \/ Block(neighborX, neighborY, neighborZ) \notin polyCube

\* The rotated normal has a positive dot product with the view direction.
isFacingCamera(face, rotationX, rotationY) ==
    LET rotatedNormal == rotateVector(face.normal.x, face.normal.y,
                                      face.normal.z, rotationX, rotationY)
        dotProduct == rotatedNormal.x * VIEW_DIRECTION_VECTOR.x
                        + rotatedNormal.y * VIEW_DIRECTION_VECTOR.y
                        + rotatedNormal.z * VIEW_DIRECTION_VECTOR.z
    IN dotProduct > 0

\* FaceStyle that takes every face with a negative normal for a back face.
FaceStyleGreyBelow(face) ==
    IF face.normal.z < 0 \/ face.normal.x < 0 \/ face.normal.y < 0
    THEN [dashed |-> TRUE, base |-> "GREY_BACK_LEFT_FACE_COLOR", shade |-> 10]
    ELSE IF face.normal.y > 0
    THEN [dashed |-> FALSE, base |-> "top", shade |-> 10]
    ELSE IF face.normal.z > 0
    THEN [dashed |-> FALSE, base |-> "front", shade |-> 9]
    ELSE [dashed |-> FALSE, base |-> "side", shade |-> 8]

\* Fill and stroke of a face that is drawn: back and left faces are grey and
\* dashed, the others get their base colour and a shade factor in tenths.
FaceStyle(face) ==
    IF face.normal.z < 0 \/ face.normal.x < 0
    THEN [dashed |-> TRUE, base |-> "GREY_BACK_LEFT_FACE_COLOR", shade |-> 10]
    ELSE IF face.normal.y > 0
    THEN [dashed |-> FALSE, base |-> "top", shade |-> 10]
    ELSE IF face.normal.z > 0
    THEN [dashed |-> FALSE, base |-> "front", shade |-> 9]
    ELSE IF face.normal.x > 0
    THEN [dashed |-> FALSE, base |-> "side", shade |-> 8]
    ELSE IF face.normal.y < 0
    THEN [dashed |-> FALSE, base |-> "top", shade |-> 7]
    ELSE [dashed |-> FALSE, base |-> "stroke", shade |-> 7]

\* The faces drawIsometricBlockFaces draws for one block, in drawing order.
RECURSIVE drawIsometricBlockFaces(_, _, _, _, _)
drawIsometricBlockFaces(polyCube, block, rotationX, rotationY, k) ==
    IF k > Len(UNIT_CUBE_FACES) THEN <<>>
    ELSE LET face == UNIT_CUBE_FACES[k]
         IN (IF /\ isNaturallyExposed(polyCube, block, face)
                /\ isFacingCamera(face, rotationX, rotationY)
             THEN << [block  |-> block,
                      face   |-> face.name,
                      normal |-> face.normal,
                      style  |-> FaceStyle(face)] >>
             ELSE <<>>)
              \o drawIsometricBlockFaces(polyCube, block, rotationX, rotationY,
                                         k + 1)

\* depth of a block: the sum of the rotated coordinates of its center, in
\* 50ths.
Depth(block, rotationX, rotationY) ==
    LET rotatedCenter == applyRotation(2 * block.x + 1, 2 * block.y + 1,
                                       2 * block.z + 1, rotationX, rotationY)
    IN rotatedCenter.x + rotatedCenter.y + rotatedCenter.z

\* Insertion of a block behind the blocks that are not deeper than it.
RECURSIVE InsertByDepth(_, _, _, _)
InsertByDepth(sorted, block, rotationX, rotationY) ==
    IF sorted = <<>> THEN <<block>>
    ELSE IF Depth(Head(sorted), rotationX, rotationY)
              <= Depth(block, rotationX, rotationY)
         THEN <<Head(sorted)>>
                \o InsertByDepth(Tail(sorted), block, rotationX, rotationY)
         ELSE <<block>> \o sorted

\* activeBlocks left in the order of the scan, without the sort.
SortByDepthUnsorted(blocks, sorted, rotationX, rotationY) == sorted \o blocks

\* activeBlocks after activeBlocks.sort((a, b) => a.depth - b.depth): the
\* blocks in scan order, sorted stably by ascending depth.
RECURSIVE SortByDepth(_, _, _, _)
SortByDepth(blocks, sorted, rotationX, rotationY) ==
    IF blocks = <<>> THEN sorted
    ELSE SortByDepth(Tail(blocks),
                     InsertByDepth(sorted, Head(blocks), rotationX, rotationY),
                     rotationX, rotationY)

\* The second pass of the effect: every block, back to front.
RECURSIVE DrawBlocks(_, _, _, _)
DrawBlocks(polyCube, activeBlocks, rotationX, rotationY) ==
    IF activeBlocks = <<>> THEN <<>>
    ELSE drawIsometricBlockFaces(polyCube, Head(activeBlocks), rotationX,
                                 rotationY, 1)
           \o DrawBlocks(polyCube, Tail(activeBlocks), rotationX, rotationY)

\* What the effect leaves on the canvas when it draws: the placeholder text
\* for an empty shape, or the faces of the blocks, back to front.
Drawing(polyCube, rotationX, rotationY) ==
    IF calculateDimensions(polyCube).width = 0
    THEN [drawn |-> TRUE, placeholder |-> TRUE, faces |-> <<>>]
    ELSE [drawn |-> TRUE, placeholder |-> FALSE,
          faces |-> DrawBlocks(polyCube,
                        SortByDepth(ScanBlocks(polyCube), <<>>,
                                    rotationX, rotationY),
                        rotationX, rotationY)]

\* A run of the effect for the polyCube of the run before it (prevPolyCubeRef),
\* with the angles as they are: clear the canvas, then the placeholder text
\* for an empty shape, or the blocks.
DrawScene ==
    /\ ~canvas.drawn
    /\ canvas' = Drawing(scene.polyCube, scene.rotationX, scene.rotationY)
    /\ UNCHANGED <<scene, viewVars, genVars, appVars, geomVars>>

\* Rendering: any input solid, or none, under any pair of angles.
InitRender ==
    /\ GenIdle
    /\ GeomIdle
    /\ scene \in [polyCube : InputSolids \cup {{}},
                  rotationX : Angles, rotationY : Angles]
    /\ canvas = BlankCanvas
    /\ ViewMounted

NextRender == DrawScene

SpecRender == InitRender /\ [][NextRender]_vars

(***************************************************************************)
(* IsometricView: the component.  Its state, its effect and its mouse      *)
(* handlers.  The effect runs after a render in which polyCube (compared   *)
(* as an object), rotateXAngle or rotateYAngle differs from the render     *)
(* before; setting a state to the value it has causes no render.  An       *)
(* effect that is due runs before the next event is handled.               *)
(*                                                                         *)
(* Angles are whole hundredths of a radian: ROTATION_SENSITIVITY is 0.01   *)
(* per pixel and clientX is a whole number of pixels.  The drawing code    *)
(* takes the cosine and sine of the angles rounded to fifths (0.64 rad:    *)
(* 0.802, 0.597; 0.93 rad: 0.598, 0.802; 1.57 rad: 0.001, 1.000; 2.21 rad: *)
(* -0.597, 0.803; 2.50 rad: -0.801, 0.598; 3.14 rad: -1.000, 0.002).       *)
(***************************************************************************)
KnownAngles ==
    {-314, -250, -221, -157, -93, -64, 0, 64, 93, 157, 221, 250, 314}

\* Math.cos and Math.sin of an angle, in fifths.
TrigOf(angle) ==
    LET a == Abs(angle)
        c == CASE a = 0   -> 5
               [] a = 64  -> 4
               [] a = 93  -> 3
               [] a = 157 -> 0
               [] a = 221 -> -3
               [] a = 250 -> -4
               [] a = 314 -> -5
        t == CASE a = 0   -> 0
               [] a = 64  -> 3
               [] a = 93  -> 4
               [] a = 157 -> 5
               [] a = 221 -> 4
               [] a = 250 -> 3
               [] a = 314 -> 0
    IN [cos |-> c, sin |-> IF angle < 0 THEN 0 - t ELSE t]

\* The positions of the mouse.
ClientXs == {0, 64, 93, 157}

\* The solids the parent hands over.
ViewSolids ==
    {{Block(0, 0, 0)},
     {Block(0, 0, 0), Block(1, 0, 0), Block(1, 1, 0)},
     Tripod(2, 2, 2)}

\* The parent renders IsometricView with a new polyCube object.
ReceivePolyCube(cells) ==
    /\ ~effectPending
    /\ polyCubeProp.id < MaxShapes
    /\ polyCubeProp' = [id |-> polyCubeProp.id + 1, polyCube |-> Some(cells)]
    /\ effectPending' = TRUE
    /\ UNCHANGED <<rotateXAngle, rotateYAngle, isDragging, startDragRef,
                   prevPolyCubeRef, drawnProp, scene, canvas>>
    /\ UNCHANGED <<genVars, appVars, geomVars>>

\* The effect that resets the angles, always or never, whatever it saw last.
RunEffectComparing(isPolyCubeChanged) ==
    /\ effectPending
    /\ IF isPolyCubeChanged
       THEN /\ rotateXAngle' = 0
            /\ rotateYAngle' = 0
            /\ prevPolyCubeRef' = polyCubeProp.polyCube
            /\ effectPending' = (rotateXAngle # 0 \/ rotateYAngle # 0)
            /\ UNCHANGED <<scene, canvas, drawnProp>>
       ELSE /\ effectPending' = FALSE
            /\ drawnProp' = polyCubeProp
            /\ IF polyCubeProp.polyCube = NULL
               THEN /\ canvas' = Drawing({}, TrigOf(rotateXAngle),
                                         TrigOf(rotateYAngle))
                    /\ scene' = [polyCube  |-> {},
                                 rotationX |-> TrigOf(rotateXAngle),
                                 rotationY |-> TrigOf(rotateYAngle)]
               ELSE /\ canvas' = Drawing(Val(polyCubeProp.polyCube),
                                         TrigOf(rotateXAngle),
                                         TrigOf(rotateYAngle))
                    /\ scene' = [polyCube  |-> Val(polyCubeProp.polyCube),
                                 rotationX |-> TrigOf(rotateXAngle),
                                 rotationY |-> TrigOf(rotateYAngle)]
            /\ UNCHANGED <<rotateXAngle, rotateYAngle, prevPolyCubeRef>>
    /\ UNCHANGED <<polyCubeProp, isDragging, startDragRef>>
    /\ UNCHANGED <<genVars, appVars, geomVars>>

\* JSON.stringify(polyCube) !== JSON.stringify(prevPolyCubeRef.current)
IsPolyCubeChanged == polyCubeProp.polyCube # prevPolyCubeRef

\* The effect: a polyCube that differs from the one seen last resets the
\* angles and is remembered, and nothing is drawn in that run; otherwise the
\* canvas is cleared and drawn.
RunEffect == RunEffectComparing(IsPolyCubeChanged)

handleMouseDown(clientX) ==
    /\ ~effectPending
    /\ isDragging' = TRUE
    /\ startDragRef' = Some([clientX        |-> clientX,
                             initialRotateX |-> rotateXAngle,
                             initialRotateY |-> rotateYAngle])
    /\ UNCHANGED <<polyCubeProp, rotateXAngle, rotateYAngle, prevPolyCubeRef,
                   effectPending, drawnProp, scene, canvas>>
    /\ UNCHANGED <<genVars, appVars, geomVars>>

\* handleMouseMove in which the pitch follows the mouse as the yaw does.
handleMouseMoveWithPitch(clientX) ==
    /\ ~effectPending
    /\ isDragging
    /\ startDragRef # NULL
    /\ LET deltaX == clientX - Val(startDragRef).clientX
           angle  == Val(startDragRef).initialRotateY + deltaX
       IN /\ angle \in KnownAngles
          /\ angle # rotateYAngle
          /\ rotateYAngle' = angle
          /\ rotateXAngle' = Val(startDragRef).initialRotateX + deltaX
    /\ effectPending' = TRUE
    /\ UNCHANGED <<polyCubeProp, isDragging, startDragRef,
                   prevPolyCubeRef, drawnProp, scene, canvas>>
    /\ UNCHANGED <<genVars, appVars, geomVars>>

\* Only the yaw follows the mouse.
handleMouseMove(clientX) ==
    /\ ~effectPending
    /\ isDragging
    /\ startDragRef # NULL
    /\ LET deltaX == clientX - Val(startDragRef).clientX
           angle  == Val(startDragRef).initialRotateY + deltaX
       IN /\ angle \in KnownAngles
          /\ angle # rotateYAngle
          /\ rotateYAngle' = angle
    /\ effectPending' = TRUE
    /\ UNCHANGED <<polyCubeProp, rotateXAngle, isDragging, startDragRef,
                   prevPolyCubeRef, drawnProp, scene, canvas>>
    /\ UNCHANGED <<genVars, appVars, geomVars>>

handleMouseUp ==
    /\ ~effectPending
    /\ isDragging' = FALSE
    /\ startDragRef' = NULL
    /\ UNCHANGED <<polyCubeProp, rotateXAngle, rotateYAngle, prevPolyCubeRef,
                   effectPending, drawnProp, scene, canvas>>
    /\ UNCHANGED <<genVars, appVars, geomVars>>

handleMouseLeave ==
    /\ ~effectPending
    /\ isDragging
    /\ isDragging' = FALSE
    /\ startDragRef' = NULL
    /\ UNCHANGED <<polyCubeProp, rotateXAngle, rotateYAngle, prevPolyCubeRef,
                   effectPending, drawnProp, scene, canvas>>
    /\ UNCHANGED <<genVars, appVars, geomVars>>

InitView ==
    /\ GenIdle
    /\ GeomIdle
    /\ RenderIdle

NextView ==
    \/ \E cells \in ViewSolids : ReceivePolyCube(cells)
    \/ RunEffect
    \/ \E clientX \in ClientXs : handleMouseDown(clientX)
    \/ \E clientX \in ClientXs : handleMouseMove(clientX)
    \/ handleMouseUp
    \/ handleMouseLeave

SpecView == InitView /\ [][NextView]_vars

(***************************************************************************)
(* App: the handlers of the session.  generateNewShape holds no await, so  *)
(* a call of it runs to its end inside the handler that makes it; here the *)
(* return value of generateContiguousShape is an input of the handler.     *)
(* The effect with dependencies [currentLevel, isProgressionActive] runs   *)
(* after the render that follows a handler which changed one of them, and  *)
(* before the next event is handled.                                       *)
(***************************************************************************)
\* The level of each step of PROGRESSION_SEQUENCE.
PROGRESSION_SEQUENCE ==
    <<"LEVEL_1", "LEVEL_1", "LEVEL_2", "LEVEL_2", "LEVEL_3", "LEVEL_3">>

Tower(n) == {Block(0, y, 0) : y \in 0 .. (n - 1)}

\* Some returns of generateContiguousShape(levelToGenerate), all grown from
\* the seed (0,0,0): the towers draw index 0 at every step.
GeneratedSolids(levelToGenerate) ==
    CASE levelToGenerate = "LEVEL_1" ->
            {Tower(4),
             {Block(0, 0, 0), Block(1, 0, 0), Block(0, 1, 0), Block(0, 2, 0)}}
      [] levelToGenerate = "LEVEL_2" -> {Tower(7)}
      [] levelToGenerate = "LEVEL_3" ->
            {Tower(8) \cup {Block(1, 7, 0), Block(0, 7, 1)}}

\* generateNewShape that publishes the new solid and its dimensions beside
\* the views of the shape before it, and leaves the drawings as they are.
GenerateNewShapeSolidOnly(result) ==
    LET dimensions == calculateDimensions(result)
    IN /\ feedback' = NULL
       /\ showCompletionBadge' = FALSE
       /\ newPolyCube' = Some(result)
       /\ currentShape' =
             Some([polyCube   |-> result,
                   views      |-> IF currentShape = NULL
                                  THEN calculateOrthographicProjections(
                                           result, dimensions)
                                  ELSE Val(currentShape).views,
                   dimensions |-> dimensions])
       /\ UNCHANGED studentDrawings
       /\ isLoading' = FALSE

\* generateNewShape, when generateContiguousShape returns newPolyCube.
GenerateNewShapeReturning(result) ==
    LET dimensions == calculateDimensions(result)
    IN /\ feedback' = NULL
       /\ showCompletionBadge' = FALSE
       /\ newPolyCube' = Some(result)
       /\ currentShape' =
             Some([polyCube   |-> result,
                   views      |-> calculateOrthographicProjections(
                                      result, dimensions),
                   dimensions |-> dimensions])
       /\ studentDrawings' = EmptyDrawings
       /\ isLoading' = FALSE

\* studentNormalized[r] ? studentNormalized[r][c] : 0
CellAt(normalizedGrid, r, c) ==
    IF r \in DOMAIN normalizedGrid THEN normalizedGrid[r][c] ELSE 0

\* viewCorrect that compares the outlines only.
ViewCorrectByOutline(studentGrid, solutionGrid) ==
    LET student  == normalize2DGrid(studentGrid)
        solution == normalize2DGrid(solutionGrid)
    IN /\ student.dimensions.width = solution.dimensions.width
       /\ student.dimensions.height = solution.dimensions.height

\* viewCorrect of one view: the dimensions of the two normalized grids, then
\* their cells over the solution's dimensions.
ViewCorrect(studentGrid, solutionGrid) ==
    LET student  == normalize2DGrid(studentGrid)
        solution == normalize2DGrid(solutionGrid)
    IN IF \/ student.dimensions.width # solution.dimensions.width
          \/ student.dimensions.height # solution.dimensions.height
       THEN FALSE
       ELSE \A r \in 0 .. (solution.dimensions.height - 1) :
               \A c \in 0 .. (solution.dimensions.width - 1) :
                  CellAt(student.normalizedGrid, r, c)
                     = CellAt(solution.normalizedGrid, r, c)

\* incorrectViews, in the order front, top, side.
IncorrectViews(drawings, views) ==
    SelectSeq(<<"front", "top", "side">>,
              LAMBDA view : ~ViewCorrect(drawings[view], views[view]))

(***************************************************************************)
(* The cells the learner clicks.  The learner copies the solution's        *)
(* silhouettes, moved sideways, cell by cell in reading order, the front   *)
(* view first, then the top view, then the side view; in the front view    *)
(* the learner may also click, at any time, the first cell that the        *)
(* silhouette leaves empty inside its outline.                             *)
(***************************************************************************)
FilledSet(view) ==
    {rc \in Coords \X Coords : view[rc[1]][rc[2]] = 1}

DrawShift(viewType) ==
    CASE viewType = "front" -> 1
      [] viewType = "top"   -> 0
      [] viewType = "side"  -> -1

TargetCells(viewType) ==
    IF currentShape = NULL THEN {}
    ELSE {<<rc[1], rc[2] + DrawShift(viewType)>> :
             rc \in FilledSet(Val(currentShape).views[viewType])}

FirstCell(cells) ==
    IF cells = {} THEN {}
    ELSE {CHOOSE rc \in cells :
             \A other \in cells :
                rc[1] * GRID_SIZE + rc[2] <= other[1] * GRID_SIZE + other[2]}

OutlineHoles(cells) ==
    {rc \in Coords \X Coords :
        /\ rc \notin cells
        /\ \E a \in cells : a[1] <= rc[1]
        /\ \E a \in cells : a[1] >= rc[1]
        /\ \E a \in cells : a[2] <= rc[2]
        /\ \E a \in cells : a[2] >= rc[2]}

Missing(viewType) ==
    TargetCells(viewType) \ FilledSet(studentDrawings[viewType])

ToggleInputs(viewType) ==
    CASE viewType = "front" ->
            FirstCell(Missing("front"))
               \cup FirstCell(OutlineHoles(TargetCells("front")))
      [] viewType = "top" ->
            IF Missing("front") = {} THEN FirstCell(Missing("top")) ELSE {}
      [] viewType = "side" ->
            IF Missing("front") = {} /\ Missing("top") = {}
            THEN FirstCell(Missing("side")) ELSE {}

\* What the handlers below leave alone.
AppFrame == UNCHANGED <<genVars, requests, geomVars, renderVars>>

\* The effect with dependencies [currentLevel, isProgressionActive].
RunShapeEffect ==
    /\ shapeEffectPending
    /\ shapeEffectPending' = FALSE
    /\ lastEvent' = "effect"
    /\ IF ~isProgressionActive
       THEN \E result \in GeneratedSolids(currentLevel) :
               GenerateNewShapeReturning(result)
       ELSE UNCHANGED <<feedback, showCompletionBadge, newPolyCube,
                        currentShape, studentDrawings, isLoading>>
    /\ UNCHANGED <<currentLevel, isTutoring, isProgressionActive,
                   currentProgressionIndex, tutorCall>>
    /\ AppFrame

handleLevelChange(value) ==
    /\ ~shapeEffectPending
    /\ ~(isLoading \/ isTutoring \/ isProgressionActive)
    /\ value # currentLevel
    /\ currentLevel' = value
    /\ shapeEffectPending' = TRUE
    /\ lastEvent' = "handleLevelChange"
    /\ UNCHANGED <<newPolyCube, currentShape, studentDrawings, feedback,
                   isLoading, isTutoring, isProgressionActive,
                   currentProgressionIndex, showCompletionBadge, tutorCall>>
    /\ AppFrame

\* The button "New Example" left enabled during a hint request.
NewExampleWhileTutoring ==
    /\ ~shapeEffectPending
    /\ ~isProgressionActive /\ ~showCompletionBadge
    /\ ~isLoading
    /\ \E result \in GeneratedSolids(currentLevel) :
          GenerateNewShapeReturning(result)
    /\ lastEvent' = "generateNewShape"
    /\ UNCHANGED <<currentLevel, isTutoring, isProgressionActive,
                   currentProgressionIndex, shapeEffectPending, tutorCall>>
    /\ AppFrame

\* The button "New Example": generateNewShape().
NewExample ==
    /\ ~shapeEffectPending
    /\ ~isProgressionActive /\ ~showCompletionBadge
    /\ ~(isLoading \/ isTutoring)
    /\ \E result \in GeneratedSolids(currentLevel) :
          GenerateNewShapeReturning(result)
    /\ lastEvent' = "generateNewShape"
    /\ UNCHANGED <<currentLevel, isTutoring, isProgressionActive,
                   currentProgressionIndex, shapeEffectPending, tutorCall>>
    /\ AppFrame

startProgression ==
    /\ ~shapeEffectPending
    /\ ~isProgressionActive /\ ~showCompletionBadge
    /\ ~(isLoading \/ isTutoring)
    /\ isProgressionActive' = TRUE
    /\ currentProgressionIndex' = 0
    /\ \E result \in GeneratedSolids(PROGRESSION_SEQUENCE[1]) :
          GenerateNewShapeReturning(result)
    /\ shapeEffectPending' = TRUE
    /\ lastEvent' = "startProgression"
    /\ UNCHANGED <<currentLevel, isTutoring, tutorCall>>
    /\ AppFrame

\* resetProgression without setCurrentProgressionIndex(-1).
resetProgressionKeepingIndex ==
    /\ ~shapeEffectPending
    /\ \/ (isProgressionActive \/ showCompletionBadge)
          /\ ~(isLoading \/ isTutoring)
       \/ showCompletionBadge
    /\ isProgressionActive' = FALSE
    /\ \E result \in GeneratedSolids(currentLevel) :
          GenerateNewShapeReturning(result)
    /\ shapeEffectPending' = isProgressionActive
    /\ lastEvent' = "resetProgression"
    /\ UNCHANGED <<currentLevel, isTutoring, tutorCall,
                   currentProgressionIndex>>
    /\ AppFrame

\* The button "Reset Progression" and the button of the completion badge.
resetProgression ==
    /\ ~shapeEffectPending
    /\ \/ (isProgressionActive \/ showCompletionBadge)
          /\ ~(isLoading \/ isTutoring)
       \/ showCompletionBadge
    /\ isProgressionActive' = FALSE
    /\ currentProgressionIndex' = -1
    /\ \E result \in GeneratedSolids(currentLevel) :
          GenerateNewShapeReturning(result)
    /\ shapeEffectPending' = isProgressionActive
    /\ lastEvent' = "resetProgression"
    /\ UNCHANGED <<currentLevel, isTutoring, tutorCall>>
    /\ AppFrame

\* The updater of handleCellToggle that fills the cell and never erases it.
ToggleCellFillOnly(prev, row, col, viewType) ==
    LET newGrid == [rIdx \in DOMAIN prev[viewType] |->
                      IF rIdx = row
                      THEN [cIdx \in DOMAIN prev[viewType][rIdx] |->
                              IF cIdx = col THEN 1
                              ELSE prev[viewType][rIdx][cIdx]]
                      ELSE prev[viewType][rIdx]]
    IN [prev EXCEPT ![viewType] = newGrid]

\* The updater handleCellToggle hands to setStudentDrawings: the two maps
\* over the rows and the cells of the view, and the spread of prev.
ToggleCell(prev, row, col, viewType) ==
    LET newGrid == [rIdx \in DOMAIN prev[viewType] |->
                      IF rIdx = row
                      THEN [cIdx \in DOMAIN prev[viewType][rIdx] |->
                              IF cIdx = col
                              THEN (IF prev[viewType][rIdx][cIdx] = 1
                                    THEN 0 ELSE 1)
                              ELSE prev[viewType][rIdx][cIdx]]
                      ELSE prev[viewType][rIdx]]
    IN [prev EXCEPT ![viewType] = newGrid]

handleCellToggle(row, col, viewType) ==
    /\ ~shapeEffectPending
    /\ ~showCompletionBadge
    /\ studentDrawings' = ToggleCell(studentDrawings, row, col, viewType)
    /\ feedback' = NULL
    /\ lastEvent' = "handleCellToggle"
    /\ UNCHANGED <<newPolyCube, currentShape, isLoading, sessionVarsButEvent>>
    /\ AppFrame

validateDrawing ==
    /\ ~shapeEffectPending
    /\ ~(isLoading \/ isTutoring \/ showCompletionBadge)
    /\ lastEvent' = "validateDrawing"
    /\ UNCHANGED <<currentLevel, isTutoring, tutorCall>>
    /\ AppFrame
    /\ IF currentShape = NULL
       THEN /\ feedback' = Some([type |-> "error", text |-> "No shape loaded"])
            /\ UNCHANGED <<newPolyCube, currentShape, studentDrawings,
                           isLoading, isProgressionActive,
                           currentProgressionIndex, showCompletionBadge,
                           shapeEffectPending>>
       ELSE LET allCorrect ==
                    \A view \in ViewTypes :
                       ViewCorrect(studentDrawings[view],
                                   Val(currentShape).views[view])
                nextIndex == currentProgressionIndex + 1
            IN IF ~allCorrect
               THEN /\ feedback' = Some([type |-> "error",
                                         text |-> "Not quite"])
                    /\ UNCHANGED <<newPolyCube, currentShape, studentDrawings,
                                   isLoading, isProgressionActive,
                                   currentProgressionIndex,
                                   showCompletionBadge, shapeEffectPending>>
               ELSE IF ~isProgressionActive
               THEN /\ feedback' = Some([type |-> "success",
                                         text |-> "Excellent work"])
                    /\ UNCHANGED <<newPolyCube, currentShape, studentDrawings,
                                   isLoading, isProgressionActive,
                                   currentProgressionIndex,
                                   showCompletionBadge, shapeEffectPending>>
               ELSE IF nextIndex < Len(PROGRESSION_SEQUENCE)
               THEN /\ currentProgressionIndex' = nextIndex
                    /\ \E result \in
                          GeneratedSolids(PROGRESSION_SEQUENCE[nextIndex + 1]) :
                          GenerateNewShapeReturning(result)
                    /\ UNCHANGED <<isProgressionActive, shapeEffectPending>>
               ELSE /\ isProgressionActive' = FALSE
                    /\ currentProgressionIndex' = -1
                    /\ showCompletionBadge' = TRUE
                    /\ feedback' = Some([type |-> "success",
                                         text |-> "Congratulations"])
                    /\ currentShape' = NULL
                    /\ shapeEffectPending' = TRUE
                    /\ UNCHANGED <<newPolyCube, studentDrawings, isLoading>>

\* handleAskTutor up to its await.
handleAskTutor ==
    /\ ~shapeEffectPending
    /\ ~(isLoading \/ isTutoring \/ showCompletionBadge)
    /\ lastEvent' = "handleAskTutor"
    /\ IF currentShape = NULL
       THEN /\ feedback' = Some([type |-> "error", text |-> "No shape loaded"])
            /\ UNCHANGED <<isTutoring, tutorCall>>
       ELSE /\ isTutoring' = TRUE
            /\ feedback' = Some([type |-> "info", text |-> "Asking the coach"])
            /\ tutorCall' =
                  Some([polyCube        |-> Val(currentShape).polyCube,
                        studentDrawings |-> studentDrawings,
                        correctViews    |-> Val(currentShape).views,
                        incorrectViews  |->
                            IncorrectViews(studentDrawings,
                                           Val(currentShape).views)])
    /\ UNCHANGED <<newPolyCube, currentShape, studentDrawings, isLoading,
                   currentLevel, isProgressionActive, currentProgressionIndex,
                   showCompletionBadge, shapeEffectPending>>
    /\ AppFrame

\* What askTutor resolves to: the text of the response, no text, or the
\* message of its catch block.
TutorReplies ==
    {[type |-> "hint", text |-> "hintText"],
     [type |-> "error", text |-> "The coach could not generate a hint"],
     [type |-> "error", text |-> "Failed to get a hint from the coach"]}

\* askTutor resolves; handleAskTutor runs from its await to its end.
askTutorResolves(hint) ==
    /\ tutorCall # NULL
    /\ feedback' = Some(hint)
    /\ isTutoring' = FALSE
    /\ tutorCall' = NULL
    /\ lastEvent' = "askTutor"
    /\ UNCHANGED <<newPolyCube, currentShape, studentDrawings, isLoading,
                   currentLevel, isProgressionActive, currentProgressionIndex,
                   showCompletionBadge, shapeEffectPending>>
    /\ AppFrame

\* new GoogleGenAI(...) stands before the try block: when it throws, askTutor
\* rejects and handleAskTutor ends at its await.
askTutorRejects ==
    /\ tutorCall # NULL
    /\ tutorCall' = NULL
    /\ lastEvent' = "askTutor"
    /\ UNCHANGED <<newPolyCube, currentShape, studentDrawings, feedback,
                   isLoading, currentLevel, isTutoring, isProgressionActive,
                   currentProgressionIndex, showCompletionBadge,
                   shapeEffectPending>>
    /\ AppFrame

\* Math.floor(x / CELL_SIZE) for x = offset - AXIS_LABEL_PADDING.
CellOfClick(offset) ==
    ((offset - AXIS_LABEL_PADDING) * GRID_SIZE) \div VIEWPORT_SIZE

\* OrthographicGrid.handleClick for a click x pixels right of and y pixels
\* below the corner of the canvas of one view.
handleClick(viewType, x, y) ==
    LET col == CellOfClick(x)
        row == CellOfClick(y)
    IN /\ ~shapeEffectPending
       /\ ~showCompletionBadge
       /\ IF row >= 0 /\ row < GRID_SIZE /\ col >= 0 /\ col < GRID_SIZE
          THEN handleCellToggle(row, col, viewType)
          ELSE /\ lastEvent' = "handleClick"
               /\ UNCHANGED <<newPolyCube, currentShape, studentDrawings,
                              feedback, isLoading, sessionVarsButEvent>>
               /\ AppFrame

\* App after its first render: no shape yet, the effect is due.
InitApp ==
    /\ pc = "idle"
    /\ level = "LEVEL_1"
    /\ targetBlocks = 0
    /\ attempts = 0
    /\ existingBlocks = <<>>
    /\ newPolyCube = NULL
    /\ currentShape = NULL
    /\ studentDrawings = EmptyDrawings
    /\ feedback = NULL
    /\ isLoading = FALSE
    /\ requests = 0
    /\ currentLevel = "LEVEL_1"
    /\ isTutoring = FALSE
    /\ isProgressionActive = FALSE
    /\ currentProgressionIndex = -1
    /\ showCompletionBadge = FALSE
    /\ shapeEffectPending = TRUE
    /\ tutorCall = NULL
    /\ lastEvent = "none"
    /\ GeomIdle
    /\ RenderIdle

NextApp ==
    \/ RunShapeEffect
    \/ \E value \in Levels : handleLevelChange(value)
    \/ NewExample
    \/ startProgression
    \/ resetProgression
    \/ \E viewType \in ViewTypes :
          \E rc \in ToggleInputs(viewType) :
             handleCellToggle(rc[1], rc[2], viewType)
    \/ validateDrawing
    \/ handleAskTutor
    \/ \E hint \in TutorReplies : askTutorResolves(hint)
    \/ askTutorRejects

SpecApp == InitApp /\ [][NextApp]_vars

(***************************************************************************)
(* The drawing grids alone: the learner clicks anywhere on the three       *)
(* canvases, on the border next to the grid and on the first, second and   *)
(* last cells, with at most MaxFilled cells filled.                        *)
(***************************************************************************)
\* Distances of a click from the left edge and from the top edge of a canvas,
\* whose side is VIEWPORT_SIZE + 2 * AXIS_LABEL_PADDING pixels: the last pixel
\* of the border, pixels of the first, second and last cells, and the first
\* pixel of the border on the far side.
ClickXs == {39, 40, 78, 340}

ClickYs == {39, 77, 339, 340}

FilledCount(drawings) ==
    Cardinality(FilledSet(drawings.front)) + Cardinality(FilledSet(drawings.top))
      + Cardinality(FilledSet(drawings.side))

InitGrid == InitApp

NextGrid ==
    \/ RunShapeEffect
    \/ \E viewType \in ViewTypes, x \in ClickXs, y \in ClickYs :
          /\ handleClick(viewType, x, y)
          /\ FilledCount(studentDrawings') <= MaxFilled

SpecGrid == InitGrid /\ [][NextGrid]_vars

\* The promise returned by askTutor settles: the request to the service is
\* answered or fails.
askTutorSettles ==
    \/ \E hint \in TutorReplies : askTutorResolves(hint)
    \/ askTutorRejects

\* The session in which every call of askTutor settles.
SpecAppLive == SpecApp /\ WF_vars(askTutorSettles)

(***************************************************************************)
(* Vocabulary of the claims, defined on sets of cells only                 *)
(***************************************************************************)
\* Two cells that differ by exactly 1 along exactly one axis.
SixAdjacent(a, b) == Abs(a.x - b.x) + Abs(a.y - b.y) + Abs(a.z - b.z) = 1

\* The cells reachable from seen by steps between 6-adjacent cells.
RECURSIVE ReachableFrom(_, _)
ReachableFrom(cells, seen) ==
    LET more == {c \in cells \ seen : \E d \in seen : SixAdjacent(c, d)}
    IN IF more = {} THEN seen ELSE ReachableFrom(cells, seen \cup more)

IsSixConnected(cells) ==
    \A start \in cells : ReachableFrom(cells, {start}) = cells

\* generateContiguousShape has returned to generateNewShape.
Returned == pc = "idle" /\ requests > 0

ReturnedSolid == Returned /\ newPolyCube # NULL

(***************************************************************************)
(* C1  Every solid returned by generateContiguousShape is 6-connected:     *)
(*     any two of its cells are joined by a path of its cells in which     *)
(*     consecutive cells differ by 1 along one axis.  The returned solid   *)
(*     is the normalized one, so normalization preserves this.             *)
(***************************************************************************)
C1_Connectivity ==
    ReturnedSolid => IsSixConnected(Val(newPolyCube))

\* A returned LEVEL_3 solid that extends along all three axes.
C1_Witness ==
    /\ ReturnedSolid
    /\ level = "LEVEL_3"
    /\ Extent(Val(newPolyCube), "x") > 1
    /\ Extent(Val(newPolyCube), "y") > 1
    /\ Extent(Val(newPolyCube), "z") > 1

(***************************************************************************)
(* C2  The number of cells of a returned solid lies in [min, max] of       *)
(*     BLOCK_COUNTS_BY_LEVEL for the tier asked for, and is the number of  *)
(*     blocks that were placed: the conversion to a grid and the           *)
(*     normalization neither lose nor duplicate a cell.                    *)
(***************************************************************************)
C2_CountBounds ==
    ReturnedSolid =>
        /\ Cardinality(Val(newPolyCube)) >= BLOCK_COUNTS_BY_LEVEL[level].min
        /\ Cardinality(Val(newPolyCube)) <= BLOCK_COUNTS_BY_LEVEL[level].max
        /\ Cardinality(Val(newPolyCube)) = Len(existingBlocks)

\* A returned solid of the largest count of the middle tier.
C2_Witness ==
    /\ ReturnedSolid
    /\ level = "LEVEL_2"
    /\ Cardinality(Val(newPolyCube)) = BLOCK_COUNTS_BY_LEVEL["LEVEL_2"].max

(***************************************************************************)
(* C3  generateContiguousShape terminates after at most                    *)
(*     MAX_REGEN_ATTEMPTS attempts.  Its result is a normalized solid that *)
(*     passed the count and the dimension check, or null when every        *)
(*     attempt was rejected; on null generateNewShape reports an error and *)
(*     leaves the current shape and the drawings as they were.             *)
(*     Termination: every step of a running call lowers C3_Variant, a      *)
(*     natural number, and the count of rejected attempts never exceeds    *)
(*     MAX_REGEN_ATTEMPTS.                                                 *)
(***************************************************************************)
\* A solid as a successful attempt returns it.
PassedChecks(cells) ==
    /\ cells # {}
    /\ \A axis \in {"x", "y", "z"} :
          /\ SetMin({b[axis] : b \in cells}) = 0
          /\ Extent(cells, axis) <= GRID_SIZE
    /\ Cardinality(cells) >= BLOCK_COUNTS_BY_LEVEL[level].min

C3_ResultState ==
    /\ attempts <= MAX_REGEN_ATTEMPTS
    /\ pc # "idle" => attempts < MAX_REGEN_ATTEMPTS
    /\ Returned =>
          /\ ~isLoading
          /\ IF newPolyCube = NULL
             THEN /\ attempts = MAX_REGEN_ATTEMPTS
                  /\ feedback # NULL
                  /\ Val(feedback).type = "error"
             ELSE /\ PassedChecks(Val(newPolyCube))
                  /\ currentShape # NULL
                  /\ Val(currentShape).polyCube = Val(newPolyCube)

C3_NullKeepsShape ==
    (pc # "idle" /\ pc' = "idle" /\ newPolyCube' = NULL)
        => (currentShape' = currentShape /\ studentDrawings' = studentDrawings)

\* Steps a running call has left at most: attempts left, then the position
\* inside the attempt.
C3_Variant ==
    LET width == BLOCK_COUNTS_BY_LEVEL["LEVEL_3"].max + 3
        rank  == CASE pc = "seed"  -> targetBlocks + 2
                   [] pc = "grow"  -> targetBlocks - Len(existingBlocks) + 1
                   [] pc = "check" -> 0
    IN IF pc = "idle" THEN 0
       ELSE (MAX_REGEN_ATTEMPTS - attempts) * width + rank

C3_Progress ==
    pc # "idle" => (C3_Variant' < C3_Variant /\ C3_Variant' >= 0)

C3_Terminates ==
    /\ []C3_ResultState
    /\ [][C3_NullKeepsShape]_vars
    /\ [][C3_Progress]_vars

\* A call that returned a solid whose seed was not at the origin.
C3_Witness ==
    /\ ReturnedSolid
    /\ existingBlocks[1].x > 0
    /\ Val(currentShape).polyCube # Range(existingBlocks)

(***************************************************************************)
(* Vocabulary of the projection claims: the forward formulas as the        *)
(* specification states them, on the state of the pipeline only            *)
(***************************************************************************)
\* The pipeline has projected the normalized grid.
Projected == stage \in {"projected", "queried", "flat", "flat2"}

\* (G - size) / 2 rounded down.
Centering(size) == (GRID_SIZE - size) \div 2

\* The canvas cell <<row, col>> block b maps to in a view with the offsets
\* offY (rows) and offX (columns).
ForwardCell(b, viewType, offX, offY) ==
    CASE viewType = "front" -> <<GRID_SIZE - 1 - (b.y + offY), b.x + offX>>
      [] viewType = "top"   -> <<b.x + offY, b.z + offX>>
      [] viewType = "side"  -> <<GRID_SIZE - 1 - (b.y + offY), b.z + offX>>

\* The cells of a view some block of cells maps to, for dimensions (w, h, d).
Silhouette(cells, viewType, w, h, d) ==
    CASE viewType = "front" ->
           {ForwardCell(b, "front", Centering(w), Centering(h)) : b \in cells}
      [] viewType = "top" ->
           {ForwardCell(b, "top", Centering(d), Centering(w)) : b \in cells}
      [] viewType = "side" ->
           {ForwardCell(b, "side", Centering(d), Centering(h)) : b \in cells}

\* The cells of a GRID_SIZE x GRID_SIZE canvas that hold 1.
Ones(view) == {<<r, c>> \in Coords \X Coords : view[r][c] = 1}

(***************************************************************************)
(* C4  Round trip.  For a normalized solid, a view and a cell the          *)
(*     projection marked filled in that view, find3DBlocksFor2DCell with   *)
(*     that view's offsets returns at least one block, and every block it  *)
(*     returns is a block of the solid that the forward formula of the     *)
(*     view, with the same offsets, maps to exactly that cell.             *)
(***************************************************************************)
C4_RoundTrip ==
    (stage = "queried" /\ proj[query.viewType][query.row][query.col] = 1) =>
        LET offsets == proj[query.viewType \o "Offsets"]
        IN /\ found # <<>>
           /\ \A i \in DOMAIN found :
                 /\ found[i] \in norm
                 /\ ForwardCell(found[i], query.viewType, offsets.x, offsets.y)
                      = <<query.row, query.col>>

\* A filled cell of the top view with two blocks below it, in a view whose
\* two offsets differ.
C4_Witness ==
    /\ stage = "queried"
    /\ query.viewType = "top"
    /\ proj.top[query.row][query.col] = 1
    /\ Len(found) >= 2
    /\ proj.topOffsets.x # proj.topOffsets.y

(***************************************************************************)
(* C5  Forward projection is a logical OR over the depth axis.  For a      *)
(*     solid with non-zero dimensions (w, h, d), a cell of the front, top  *)
(*     or side grid holds 1 if and only if some occupied voxel maps to it  *)
(*     under that view's formula with the offsets floor((G - size) / 2);   *)
(*     every other cell holds 0.  Voxels behind others still contribute.   *)
(***************************************************************************)
C5_ProjectionIsOr ==
    (Projected /\ dims.width # 0 /\ dims.height # 0 /\ dims.depth # 0) =>
        \A viewType \in ViewTypes :
            /\ \A r, c \in Coords : proj[viewType][r][c] \in {0, 1}
            /\ Ones(proj[viewType])
                 = Silhouette(norm, viewType, dims.width, dims.height, dims.depth)

\* A projected solid with a voxel that is the only one on its top and side
\* cells and has another voxel in front of it in the front view.
C5_Witness ==
    /\ stage = "projected"
    /\ \E b \in norm :
          /\ \E f \in norm : f.x = b.x /\ f.y = b.y /\ f.z < b.z
          /\ \A o \in norm \ {b} : ~(o.x = b.x /\ o.z = b.z)
          /\ \A o \in norm \ {b} : ~(o.y = b.y /\ o.z = b.z)

(***************************************************************************)
(* C6  Grid size 8, the solid of the single voxel (0,0,0): the front, the  *)
(*     top and the side grid each have exactly one filled cell, and        *)
(*     frontOffsets, topOffsets and sideOffsets are all {x: 3, y: 3}.      *)
(***************************************************************************)
C6_SingleVoxel ==
    (Projected /\ grid = {Block(0, 0, 0)}) =>
        /\ GRID_SIZE = 8
        /\ \A viewType \in ViewTypes :
              /\ Cardinality(Ones(proj[viewType])) = 1
              /\ proj[viewType \o "Offsets"] = [x |-> 3, y |-> 3]

\* The single voxel at the origin has been projected.
C6_Witness ==
    /\ stage = "projected"
    /\ grid = {Block(0, 0, 0)}
    /\ norm = grid
    /\ proj.front[4][3] = 1

(***************************************************************************)
(* C7  Translation invariance of silhouettes.  For a solid and any         *)
(*     translate of it that stays inside the grid: normalizing the         *)
(*     translate, computing its dimensions and projecting it gives          *)
(*     silhouettes whose normalize2DGrid forms equal, cell for cell and in  *)
(*     their dimensions, those obtained from the solid itself.              *)
(***************************************************************************)
C7_TranslationInvariance ==
    (stage \in {"flat", "flat2"}) =>
        /\ Val(flat.ofGrid).normalizedGrid = Val(flat.ofBase).normalizedGrid
        /\ Val(flat.ofGrid).dimensions = Val(flat.ofBase).dimensions

\* The side silhouette of a solid of three or more cells that was moved along
\* all three axes, as far as the grid allows along z.
C7_Witness ==
    /\ stage = "flat"
    /\ flat.viewType = "side"
    /\ Cardinality(grid) >= 3
    /\ \E dx, dy, dz \in 1 .. (GRID_SIZE - 1) :
          /\ grid = Translate(base, dx, dy, dz)
          /\ \E b \in grid : b.z = GRID_SIZE - 1
    /\ Val(flat.ofGrid).dimensions.width >= 2

(***************************************************************************)
(* C8  Normalization is idempotent.  normalizePolyCube applied to its own  *)
(*     result returns that result, for every 3D grid; normalize2DGrid      *)
(*     applied to the normalizedGrid it returned gives the same            *)
(*     normalizedGrid and the same dimensions, for every 2D grid, the      *)
(*     empty one included.                                                 *)
(***************************************************************************)
C8_Idempotence ==
    /\ renorm # NULL => Val(renorm) = norm
    /\ stage = "flat2" =>
          /\ Val(flat.again).normalizedGrid = Val(flat.ofGrid).normalizedGrid
          /\ Val(flat.again).dimensions = Val(flat.ofGrid).dimensions

\* Both normalizers were applied twice, to a grid away from the origin and to
\* a silhouette of more than one row and column away from the canvas edge.
C8_Witness ==
    /\ stage = "flat2"
    /\ renorm # NULL
    /\ \A b \in grid : b.x > 1 /\ b.y > 1 /\ b.z > 1
    /\ grid # {}
    /\ Val(flat.ofGrid).dimensions.width >= 2
    /\ Val(flat.ofGrid).dimensions.height >= 2
    /\ \A r \in Coords : proj[flat.viewType][r][0] = 0
    /\ \A c \in Coords : proj[flat.viewType][0][c] = 0

\* The empty grid was normalized twice, in 3D and in 2D.
C8_WitnessEmpty ==
    /\ stage = "flat2"
    /\ renorm # NULL
    /\ grid = {}
    /\ Val(flat.ofGrid).normalizedGrid = <<>>

(***************************************************************************)
(* C9  Dimension consistency.  For a non-empty solid produced by           *)
(*     normalizePolyCube the minimum occupied coordinate on each axis is   *)
(*     0, calculateDimensions returns max - min + 1 per axis, every        *)
(*     occupied voxel lies in [0, dimension) on each axis, and the         *)
(*     occupied set is the input's translated by (-minX, -minY, -minZ).    *)
(***************************************************************************)
C9_DimensionConsistency ==
    (stage # "input" /\ stage # "none" /\ grid # {}) =>
        LET lowest(cells, axis)  == SetMin({b[axis] : b \in cells})
            highest(cells, axis) == SetMax({b[axis] : b \in cells})
            size == [x |-> dims.width, y |-> dims.height, z |-> dims.depth]
        IN /\ norm # {}
           /\ \A axis \in {"x", "y", "z"} :
                 /\ lowest(norm, axis) = 0
                 /\ size[axis] = highest(norm, axis) - lowest(norm, axis) + 1
                 /\ \A b \in norm : 0 <= b[axis] /\ b[axis] < size[axis]
           /\ norm = Translate(grid, 0 - lowest(grid, "x"),
                               0 - lowest(grid, "y"), 0 - lowest(grid, "z"))

\* A grid as tall as the canvas, moved away from the origin along x and z,
\* has been normalized.
C9_Witness ==
    /\ stage = "normalized"
    /\ dims.height = GRID_SIZE
    /\ \A b \in grid : b.x > 0 /\ b.z > 0
    /\ Cardinality(grid) > GRID_SIZE

(***************************************************************************)
(* C10 Occlusion.  For any two occupied voxels that are 6-adjacent, the    *)
(*     face of each whose local normal points at the other is never drawn, *)
(*     whatever the two rotation angles are.                               *)
(***************************************************************************)
C10_Occlusion ==
    canvas.drawn =>
        \A a, b \in scene.polyCube :
            SixAdjacent(a, b) =>
                \A i \in DOMAIN canvas.faces :
                    ~ /\ canvas.faces[i].block = a
                      /\ canvas.faces[i].normal
                           = [x |-> b.x - a.x, y |-> b.y - a.y, z |-> b.z - a.z]

\* A drawn solid, turned about both axes, with two adjacent voxels whose
\* shared face is turned towards the camera on one of them, while other
\* faces of that voxel were drawn.
C10_Witness ==
    /\ canvas.drawn
    /\ scene.rotationX.sin # 0
    /\ scene.rotationY.sin # 0
    /\ \E a, b \in scene.polyCube :
          /\ SixAdjacent(a, b)
          /\ \E k \in DOMAIN UNIT_CUBE_FACES :
                /\ UNIT_CUBE_FACES[k].normal
                     = [x |-> b.x - a.x, y |-> b.y - a.y, z |-> b.z - a.z]
                /\ isFacingCamera(UNIT_CUBE_FACES[k], scene.rotationX,
                                  scene.rotationY)
          /\ \E i \in DOMAIN canvas.faces : canvas.faces[i].block = a

(***************************************************************************)
(* C11 Rendering visibility.  A solid of one voxel drawn at rotation       *)
(*     (0, 0): exactly three faces are drawn, the top (+y), the front (+z) *)
(*     and the right (+x) face, in that order.  All six faces pass the     *)
(*     neighbour test; the bottom, back and left faces are rejected by the *)
(*     camera test alone.                                                  *)
(***************************************************************************)
\* The angle 0: cosine 1, sine 0.
ZeroAngle == [cos |-> 5, sin |-> 0]

C11_SingleVoxelFaces ==
    (/\ canvas.drawn
     /\ Cardinality(scene.polyCube) = 1
     /\ scene.rotationX = ZeroAngle
     /\ scene.rotationY = ZeroAngle) =>
        LET towardsCamera == {[x |-> 0, y |-> 1, z |-> 0],
                              [x |-> 0, y |-> 0, z |-> 1],
                              [x |-> 1, y |-> 0, z |-> 0]}
        IN /\ Len(canvas.faces) = 3
           /\ canvas.faces[1].normal = [x |-> 0, y |-> 1, z |-> 0]
           /\ canvas.faces[2].normal = [x |-> 0, y |-> 0, z |-> 1]
           /\ canvas.faces[3].normal = [x |-> 1, y |-> 0, z |-> 0]
           /\ \A i \in DOMAIN canvas.faces : canvas.faces[i].block \in scene.polyCube
           /\ \A b \in scene.polyCube, k \in DOMAIN UNIT_CUBE_FACES :
                 /\ isNaturallyExposed(scene.polyCube, b, UNIT_CUBE_FACES[k])
                 /\ isFacingCamera(UNIT_CUBE_FACES[k], ZeroAngle, ZeroAngle)
                      <=> UNIT_CUBE_FACES[k].normal \in towardsCamera

\* The single voxel was drawn unrotated.
C11_Witness ==
    /\ canvas.drawn
    /\ scene.polyCube = {Block(0, 0, 0)}
    /\ scene.rotationX = ZeroAngle
    /\ scene.rotationY = ZeroAngle
    /\ ~canvas.placeholder
    /\ canvas.faces # <<>>

(***************************************************************************)
(* C12.  Whenever the solid handed to IsometricView changes identity, the  *)
(* angles are reset to zero and the first render that draws the new solid  *)
(* uses angles (0,0), whatever the angles were before: every step that     *)
(* draws a solid the canvas has not shown yet draws it with yaw and pitch  *)
(* zero and leaves both angles at zero.                                    *)
(***************************************************************************)
C12_FirstDrawCanonical ==
    [][(drawnProp'.id # drawnProp.id /\ polyCubeProp.polyCube # NULL)
          => /\ canvas'.drawn
             /\ scene'.rotationX = ZeroAngle
             /\ scene'.rotationY = ZeroAngle
             /\ rotateXAngle' = 0
             /\ rotateYAngle' = 0]_vars

\* A new solid is drawn for the first time.
C12_Witness ==
    /\ polyCubeProp.id > 0
    /\ drawnProp = polyCubeProp
    /\ canvas.drawn
    /\ scene.polyCube = Val(polyCubeProp.polyCube)

(***************************************************************************)
(* C13.  After IsometricView receives a solid different from the previous  *)
(* one the canvas is redrawn showing the new solid without further user    *)
(* input.  Nothing happens without input once no effect is due, so the     *)
(* claim says: whenever no effect is due, the canvas shows the solid the   *)
(* component was handed last.                                              *)
(***************************************************************************)
C13_RedrawnWithoutInput ==
    ~effectPending =>
        /\ drawnProp = polyCubeProp
        /\ polyCubeProp.polyCube # NULL =>
              /\ canvas.drawn
              /\ scene.polyCube = Val(polyCubeProp.polyCube)

\* A solid was handed over, the effect has run and no effect is due.
C13_Witness ==
    /\ polyCubeProp.id > 0
    /\ ~effectPending
    /\ prevPolyCubeRef = polyCubeProp.polyCube

(***************************************************************************)
(* C14.  validateDrawing reports success exactly when, in each of the      *)
(* three views, the learner's filled cells moved to the top left corner    *)
(* are the solution's filled cells moved to the top left corner (same      *)
(* outline, same cells); where the drawing sits in the grid does not       *)
(* matter.  Success is the success message or, in the progression, the     *)
(* step to the next challenge.                                             *)
(***************************************************************************)
Tight(cells) ==
    {<<rc[1] - SetMin({a[1] : a \in cells}),
       rc[2] - SetMin({a[2] : a \in cells})>> : rc \in cells}

SameSilhouettes ==
    \A view \in ViewTypes :
       Tight(Ones(studentDrawings[view]))
          = Tight(Ones(Val(currentShape).views[view]))

C14_ValidationExact ==
    [][(lastEvent' = "validateDrawing" /\ currentShape # NULL)
          => (SameSilhouettes
                <=> \/ feedback' # NULL /\ Val(feedback').type = "success"
                    \/ currentProgressionIndex' = currentProgressionIndex + 1
                    \/ showCompletionBadge')]_vars

\* A drawing that sits elsewhere in the grid than the solution passed.
C14_Witness ==
    /\ lastEvent = "validateDrawing"
    /\ currentShape # NULL
    /\ feedback # NULL /\ Val(feedback).type = "success"
    /\ \A view \in ViewTypes :
          Ones(studentDrawings[view]) # {}
    /\ studentDrawings.front # Val(currentShape).views.front
    /\ studentDrawings.side # Val(currentShape).views.side

(***************************************************************************)
(* C16.  The hint request does not change the engine's state: from the     *)
(* start of a request by handleAskTutor until its response is applied,     *)
(* currentShape (solid, dimensions, solution silhouettes) stays what it    *)
(* was and what askTutor was handed, and no shape generation, validation   *)
(* or progression step starts while isTutoring is true.                    *)
(***************************************************************************)
C16_HintKeepsShape ==
    [][isTutoring =>
          /\ currentShape # NULL
          /\ currentShape' = currentShape
          /\ newPolyCube' = newPolyCube
          /\ currentProgressionIndex' = currentProgressionIndex
          /\ isProgressionActive' = isProgressionActive
          /\ lastEvent' \in {"handleCellToggle", "askTutor"}
          /\ tutorCall # NULL =>
                /\ Val(tutorCall).polyCube = Val(currentShape).polyCube
                /\ Val(tutorCall).correctViews = Val(currentShape).views]_vars

\* A request made on a drawing in progress was answered with a hint.
C16_Witness ==
    /\ ~isTutoring
    /\ lastEvent = "askTutor"
    /\ feedback # NULL /\ Val(feedback).type = "hint"
    /\ currentShape # NULL
    /\ Ones(studentDrawings.front) # {}

(***************************************************************************)
(* C15.  find3DBlocksFor2DCell is the exact inverse of the forward         *)
(* mapping: for every solid, view, offsets and cell it returns, once       *)
(* each, exactly the occupied voxels that the forward mapping of that view *)
(* with those offsets sends to the cell.  Where the projection loop ran    *)
(* (no dimension is 0) it therefore returns nothing for a cell the         *)
(* projection left unfilled, and something for a filled one.               *)
(***************************************************************************)
C15_ExactInverse ==
    stage = "queriedWith" =>
       LET offsets == OffsetsOf(proj, query.viewType)
           sent == {b \in grid :
                       ForwardCell(b, query.viewType, offsets.x, offsets.y)
                          = <<query.row, query.col>>}
       IN /\ Range(found) = sent
          /\ Len(found) = Cardinality(sent)
          /\ (/\ dims.width > 0 /\ dims.height > 0 /\ dims.depth > 0
              /\ query.row \in Coords /\ query.col \in Coords)
                => (found = <<>>
                      <=> proj[query.viewType][query.row][query.col] = 0)

\* Two voxels behind each other are both found, with offsets that are not
\* the ones of the solid's own dimensions.
C15_Witness ==
    /\ stage = "queriedWith"
    /\ Len(found) = 2
    /\ dims # calculateDimensions(grid)
    /\ OffsetsOf(proj, query.viewType).x > 0

(***************************************************************************)
(* C17.  When the width, the height or the depth handed to                 *)
(* calculateOrthographicProjections is 0, it returns three GRID_SIZE x     *)
(* GRID_SIZE grids without a filled cell and the offsets {x: 0, y: 0} for  *)
(* every view, whatever the solid contains.                                *)
(***************************************************************************)
C17_ZeroDimension ==
    (/\ stage \in {"projectedWith", "queriedWith"}
     /\ (dims.width = 0 \/ dims.height = 0 \/ dims.depth = 0))
       => /\ \A viewType \in ViewTypes :
                /\ DOMAIN proj[viewType] = Coords
                /\ \A r \in Coords : DOMAIN proj[viewType][r] = Coords
                /\ Ones(proj[viewType]) = {}
                /\ OffsetsOf(proj, viewType) = [x |-> 0, y |-> 0]

\* Only the height is 0, and the solid has voxels.
C17_Witness ==
    /\ stage = "projectedWith"
    /\ dims.height = 0 /\ dims.width > 0 /\ dims.depth > 0
    /\ Cardinality(grid) > 1

(***************************************************************************)
(* C18.  The offsets returned with each silhouette record where the tight  *)
(* projection was placed: for every normalized non-empty solid and every   *)
(* view, offsets.x is the column of the leftmost filled cell and offsets.y *)
(* is the row of the topmost filled cell.                                  *)
(***************************************************************************)
C18_OffsetsLocateSilhouette ==
    (Projected /\ norm # {}) =>
       \A viewType \in ViewTypes :
          LET filled == Ones(proj[viewType])
          IN /\ filled # {}
             /\ OffsetsOf(proj, viewType).x = SetMin({rc[2] : rc \in filled})
             /\ OffsetsOf(proj, viewType).y = SetMin({rc[1] : rc \in filled})

\* A solid was projected.
C18_Witness ==
    /\ Projected
    /\ Cardinality(norm) > 1
    /\ dims.height < GRID_SIZE

(***************************************************************************)
(* C19.  The colouring of a drawn face depends on its local normal only,   *)
(* at every rotation: the back (-z) and left (-x) faces are filled with    *)
(* GREY_BACK_LEFT_FACE_COLOR and stroked dashed; every other face is       *)
(* stroked solid and filled with the top colour at factor 1 (+y), the      *)
(* front colour at SHADE_FACTOR_FRONT (+z), the side colour at             *)
(* SHADE_FACTOR_SIDE (+x) or the top colour at SHADE_FACTOR_BACK (-y); a   *)
(* bottom face is never grey or dashed.  Shade factors are in tenths.      *)
(***************************************************************************)
StyleOfNormal ==
    [n \in {f.normal : f \in Range(UNIT_CUBE_FACES)} |->
        CASE n = [x |-> 0, y |-> 0, z |-> -1] ->
                [dashed |-> TRUE, base |-> "GREY_BACK_LEFT_FACE_COLOR",
                 shade |-> 10]
          [] n = [x |-> -1, y |-> 0, z |-> 0] ->
                [dashed |-> TRUE, base |-> "GREY_BACK_LEFT_FACE_COLOR",
                 shade |-> 10]
          [] n = [x |-> 0, y |-> 1, z |-> 0] ->
                [dashed |-> FALSE, base |-> "top", shade |-> 10]
          [] n = [x |-> 0, y |-> 0, z |-> 1] ->
                [dashed |-> FALSE, base |-> "front", shade |-> 9]
          [] n = [x |-> 1, y |-> 0, z |-> 0] ->
                [dashed |-> FALSE, base |-> "side", shade |-> 8]
          [] n = [x |-> 0, y |-> -1, z |-> 0] ->
                [dashed |-> FALSE, base |-> "top", shade |-> 7]]

C19_FaceColouring ==
    canvas.drawn =>
       \A i \in DOMAIN canvas.faces :
          canvas.faces[i].style = StyleOfNormal[canvas.faces[i].normal]

\* At a rotation with pitch and yaw, a bottom face and a back or left face
\* are drawn.
C19_Witness ==
    /\ canvas.drawn
    /\ scene.rotationX # ZeroAngle
    /\ scene.rotationY # ZeroAngle
    /\ \E i \in DOMAIN canvas.faces : canvas.faces[i].normal.y = -1
    /\ \E i \in DOMAIN canvas.faces :
          canvas.faces[i].normal.z = -1 \/ canvas.faces[i].normal.x = -1

(***************************************************************************)
(* C20.  As stated: the dimension check after normalization can reject an  *)
(* attempt, that is, the voxels placed so far can be grown inside the grid *)
(* to a solid that has, after normalizePolyCube, a dimension greater than  *)
(* GRID_SIZE or is empty.  The dimensions depend on the bounding box only, *)
(* so the voxels tried in addition to the placed ones are the pairs of     *)
(* opposite corners of boxes inside the grid.                              *)
(***************************************************************************)
BoxEnds == {0, 1, GRID_SIZE - 2, GRID_SIZE - 1}

CornerPairs ==
    {{lo, hi} : lo, hi \in [x : BoxEnds, y : BoxEnds, z : BoxEnds]}

C20_DimensionCheckCanReject ==
    pc = "grow" =>
       \E cells \in CornerPairs :
          TooLargeOrEmpty(calculateDimensions(
              normalizePolyCube(cells \cup Range(existingBlocks))))

(***************************************************************************)
(* C20, amended.  The dimension check after normalization never rejects    *)
(* an attempt: the placed voxels are never none and span at most GRID_SIZE *)
(* cells on every axis when an attempt is checked, and the attempt counter *)
(* is incremented only by the check of the placed count against min.       *)
(***************************************************************************)
AtCheck ==
    \/ pc = "check"
    \/ pc = "grow" /\ Len(existingBlocks) >= targetBlocks

C20_CheckNeverRejects ==
    [][AtCheck =>
          LET cells == Range(existingBlocks)
          IN /\ cells # {}
             /\ \A axis \in {"x", "y", "z"} :
                   Extent(cells, axis) \in 1 .. GRID_SIZE
             /\ attempts' # attempts =>
                   Len(existingBlocks) < BLOCK_COUNTS_BY_LEVEL[level].min]_vars

\* An attempt grown from a seed away from the corner fills the whole height
\* of the grid, is moved by normalizePolyCube and is returned.
C20_Witness ==
    /\ ReturnedSolid
    /\ attempts = 0
    /\ existingBlocks[1].x > 0
    /\ Range(existingBlocks) # Val(newPolyCube)
    /\ Extent(Val(newPolyCube), "y") = GRID_SIZE

(***************************************************************************)
(* C21  generateContiguousShape returns a solid on its first attempt, for  *)
(*      each tier and every draw: the attempt counter stays 0, the growth  *)
(*      loop never breaks for want of a candidate (while fewer blocks than *)
(*      the target are placed, a free cell of the grid touches a placed    *)
(*      one), the placed count reaches the target, which is at least min,  *)
(*      and the result is never null.                                      *)
(***************************************************************************)
\* The cells of the grid.
GridCells == [x : Coords, y : Coords, z : Coords]

\* The free cells of the grid that touch a placed cell.
UnitSteps ==
    {<<1, 0, 0>>, <<-1, 0, 0>>, <<0, 1, 0>>, <<0, -1, 0>>, <<0, 0, 1>>,
     <<0, 0, -1>>}

FreeTouching(placed) ==
    {c \in {Block(d.x + s[1], d.y + s[2], d.z + s[3]) :
                d \in placed, s \in UnitSteps} :
        c \in GridCells /\ c \notin placed}

C21_FirstAttempt ==
    /\ attempts = 0
    /\ pc # "check"
    /\ pc = "grow" =>
          /\ Len(existingBlocks) <= targetBlocks
          /\ targetBlocks >= BLOCK_COUNTS_BY_LEVEL[level].min
          /\ Len(existingBlocks) < targetBlocks =>
                FreeTouching(Range(existingBlocks)) # {}
    /\ Returned =>
          /\ newPolyCube # NULL
          /\ Len(existingBlocks) = targetBlocks
          /\ Cardinality(Val(newPolyCube)) >= BLOCK_COUNTS_BY_LEVEL[level].min

\* A first attempt of the top tier that placed the largest count, not all
\* of it in one column, and was returned.
C21_Witness ==
    /\ ReturnedSolid
    /\ attempts = 0
    /\ level = "LEVEL_3"
    /\ Len(existingBlocks) = BLOCK_COUNTS_BY_LEVEL["LEVEL_3"].max
    /\ Extent(Val(newPolyCube), "x") > 1

(***************************************************************************)
(* C22  Every growth step appends one block that is a cell of the grid,    *)
(*      is not placed yet and touches a placed block, and at most 4 of the *)
(*      free cells touching the placed blocks lie strictly higher than it. *)
(*      The seed is the only block of a starting attempt, at y = 0 with x  *)
(*      and z below GRID_SIZE / 2.                                         *)
(***************************************************************************)
C22_GrowthStep ==
    [][/\ (pc = "grow" /\ existingBlocks' # existingBlocks) =>
            LET placed     == Range(existingBlocks)
                nextBlock  == existingBlocks'[Len(existingBlocks')]
                candidates == FreeTouching(placed)
            IN /\ existingBlocks' = Append(existingBlocks, nextBlock)
               /\ nextBlock \in GridCells
               /\ nextBlock \notin placed
               /\ \E d \in placed : SixAdjacent(nextBlock, d)
               /\ Cardinality({c \in candidates : c.y > nextBlock.y}) <= 4
       /\ (pc = "seed" /\ pc' = "grow") =>
            /\ Len(existingBlocks') = 1
            /\ existingBlocks'[1].y = 0
            /\ existingBlocks'[1].x \in 0 .. (GRID_SIZE \div 2 - 1)
            /\ existingBlocks'[1].z \in 0 .. (GRID_SIZE \div 2 - 1)]_vars

\* Five blocks on the ground: the fifth was drawn last of the top five, below
\* the four candidates on top of the first four blocks.
C22_Witness ==
    /\ pc = "grow"
    /\ Len(existingBlocks) >= 5
    /\ \A i \in 1 .. 5 : existingBlocks[i].y = 0
    /\ existingBlocks[1].x > 0

(***************************************************************************)
(* C23  In a render pass the voxels are drawn in ascending order of the    *)
(*      depth key, the sum of the coordinates of the rotated centre: a     *)
(*      face drawn before another belongs to a voxel that is not deeper.   *)
(*      At rotation (0, 0) the order is by non-decreasing x + y + z.  The  *)
(*      faces of one voxel are drawn together, in UNIT_CUBE_FACES order.   *)
(***************************************************************************)
\* The position of a face in UNIT_CUBE_FACES.
FaceIndex(name) == CHOOSE k \in DOMAIN UNIT_CUBE_FACES :
                       UNIT_CUBE_FACES[k].name = name

C23_DepthOrder ==
    canvas.drawn =>
       \A i, j \in DOMAIN canvas.faces :
          i < j =>
             LET a == canvas.faces[i]
                 b == canvas.faces[j]
             IN /\ Depth(a.block, scene.rotationX, scene.rotationY)
                      <= Depth(b.block, scene.rotationX, scene.rotationY)
                /\ (scene.rotationX = ZeroAngle /\ scene.rotationY = ZeroAngle)
                      => a.block.x + a.block.y + a.block.z
                           <= b.block.x + b.block.y + b.block.z
                /\ a.block = b.block =>
                      /\ FaceIndex(a.face) < FaceIndex(b.face)
                      /\ \A k \in i .. j : canvas.faces[k].block = a.block

\* A pass under a pitch and a yaw that are not 0 in which the sort moved a
\* voxel in front of one that the scan meets earlier, and which drew three
\* faces of one voxel.
C23_Witness ==
    /\ canvas.drawn
    /\ scene.rotationX # ZeroAngle
    /\ scene.rotationY # ZeroAngle
    /\ \E i, j \in DOMAIN canvas.faces :
          /\ i < j
          /\ ScanKey(canvas.faces[i].block) > ScanKey(canvas.faces[j].block)
          /\ Depth(canvas.faces[i].block, scene.rotationX, scene.rotationY)
                < Depth(canvas.faces[j].block, scene.rotationX, scene.rotationY)
    /\ \E i \in DOMAIN canvas.faces :
          /\ i + 2 \in DOMAIN canvas.faces
          /\ canvas.faces[i].block = canvas.faces[i + 2].block

(***************************************************************************)
(* C24  The pitch of IsometricView is 0 in every reachable state.  The yaw *)
(*      changes only during a drag, to the yaw at mouse-down plus          *)
(*      ROTATION_SENSITIVITY times the distance of the mouse from its      *)
(*      position at mouse-down (one hundredth of a radian per pixel), or   *)
(*      by the reset for a new solid; the record of the drag exists        *)
(*      exactly while dragging, so a move after mouse-up or mouse-leave    *)
(*      changes nothing.  No bottom face is ever drawn, and the top face   *)
(*      of every voxel with no voxel directly above it is drawn, at every  *)
(*      yaw.                                                               *)
(***************************************************************************)
C24_PitchZero ==
    /\ rotateXAngle = 0
    /\ scene.rotationX = ZeroAngle
    /\ isDragging <=> startDragRef # NULL
    /\ startDragRef # NULL => Val(startDragRef).initialRotateX = 0
    /\ canvas.drawn =>
          /\ \A i \in DOMAIN canvas.faces : canvas.faces[i].normal.y # -1
          /\ \A b \in scene.polyCube :
                Block(b.x, b.y + 1, b.z) \notin scene.polyCube =>
                   \E i \in DOMAIN canvas.faces :
                      /\ canvas.faces[i].block = b
                      /\ canvas.faces[i].normal = [x |-> 0, y |-> 1, z |-> 0]

C24_YawStep ==
    rotateYAngle' # rotateYAngle =>
       \/ /\ polyCubeProp.polyCube # prevPolyCubeRef
          /\ prevPolyCubeRef' = polyCubeProp.polyCube
          /\ rotateYAngle' = 0
       \/ /\ isDragging
          /\ startDragRef # NULL
          /\ UNCHANGED <<isDragging, startDragRef>>
          /\ \E clientX \in ClientXs :
                rotateYAngle' = Val(startDragRef).initialRotateY
                                  + (clientX - Val(startDragRef).clientX)

C24_YawOnly == []C24_PitchZero /\ [][C24_YawStep]_vars

\* A drag has turned the solid to show its back and has ended; the canvas
\* shows a solid of several voxels at that yaw.
C24_Witness ==
    /\ ~isDragging
    /\ ~effectPending
    /\ rotateYAngle = 250
    /\ canvas.drawn
    /\ scene.rotationY = TrigOf(250)
    /\ Cardinality(scene.polyCube) > 2
    /\ \E i \in DOMAIN canvas.faces : canvas.faces[i].normal.z = -1

(***************************************************************************)
(* C25.  After the learner passes validateDrawing on the last step of the  *)
(* progression, showCompletionBadge is true with currentShape null, and    *)
(* the badge stays shown until the learner invokes resetProgression: no    *)
(* other step, and no automatic shape generation, hides it.                *)
(***************************************************************************)
\* validateDrawing passes on the last step of the progression.
PassesLastStep ==
    /\ lastEvent' = "validateDrawing"
    /\ isProgressionActive
    /\ currentProgressionIndex = Len(PROGRESSION_SEQUENCE) - 1
    /\ ~isProgressionActive'

C25_BadgeStaysShown ==
    [][/\ PassesLastStep => (showCompletionBadge' /\ currentShape' = NULL)
       /\ (showCompletionBadge /\ ~showCompletionBadge')
             => lastEvent' = "resetProgression"]_vars

\* The last step of the progression was passed: the badge is shown.
C25_Witness ==
    /\ lastEvent = "validateDrawing"
    /\ showCompletionBadge
    /\ currentShape = NULL
    /\ ~isProgressionActive
    /\ currentProgressionIndex = -1

(***************************************************************************)
(* C26  The progression is a state machine: isProgressionActive holds      *)
(*      exactly when currentProgressionIndex is in 0..5, and does not hold *)
(*      exactly when it is -1.  The index changes only by startProgression *)
(*      (to 0), by resetProgression or the pass of the last step (to -1),  *)
(*      or by exactly +1 on a validateDrawing in which all three views are *)
(*      correct.  A validateDrawing with an incorrect view leaves the      *)
(*      index, the mode and the current shape as they were.                *)
(***************************************************************************)
C26_ModeMatchesIndex ==
    /\ currentProgressionIndex \in -1 .. 5
    /\ isProgressionActive <=> currentProgressionIndex \in 0 .. 5
    /\ ~isProgressionActive <=> currentProgressionIndex = -1

C26_IndexStep ==
    /\ currentProgressionIndex' # currentProgressionIndex =>
          \/ lastEvent' = "startProgression" /\ currentProgressionIndex' = 0
          \/ lastEvent' = "resetProgression" /\ currentProgressionIndex' = -1
          \/ /\ lastEvent' = "validateDrawing"
             /\ currentShape # NULL
             /\ SameSilhouettes
             /\ IF currentProgressionIndex = 5
                THEN currentProgressionIndex' = -1
                ELSE currentProgressionIndex' = currentProgressionIndex + 1
    /\ (lastEvent' = "validateDrawing" /\ currentShape # NULL
           /\ ~SameSilhouettes)
          => UNCHANGED <<currentProgressionIndex, isProgressionActive,
                         currentShape>>
    /\ isProgressionActive' # isProgressionActive =>
          currentProgressionIndex' # currentProgressionIndex

C26_Progression == []C26_ModeMatchesIndex /\ [][C26_IndexStep]_vars

\* The learner reached the last step and failed a validation there.
C26_Witness ==
    /\ lastEvent = "validateDrawing"
    /\ isProgressionActive
    /\ currentProgressionIndex = 5
    /\ feedback # NULL /\ Val(feedback).type = "error"

(***************************************************************************)
(* C27.  Every handleAskTutor call made with a shape loaded eventually     *)
(* ends with isTutoring reset to false and feedback set to a hint or an    *)
(* error message, whatever the outcome of the call of the tutoring service *)
(* (text, no text, a rejected request, a failure while the client is       *)
(* constructed).                                                           *)
(***************************************************************************)
C27_HintRequestEnds ==
    isTutoring ~>
       (/\ ~isTutoring
        /\ feedback # NULL
        /\ Val(feedback).type \in {"hint", "error"})

\* A request made with a shape loaded has ended: askTutor has settled.
C27_Witness ==
    /\ currentShape # NULL
    /\ tutorCall = NULL
    /\ lastEvent = "askTutor"
    /\ isTutoring

(***************************************************************************)
(* C28  A normalized non-empty solid with dimensions (w, h, d), projected  *)
(*      with those dimensions: every voxel maps to a cell inside the grid  *)
(*      in each view and that cell is filled, so the range guard drops no  *)
(*      voxel; the filled cells span exactly h rows by w columns in the    *)
(*      front view, w rows by d columns in the top view and h rows by d    *)
(*      columns in the side view, which are the dimensions normalize2DGrid *)
(*      returns for the view.                                              *)
(***************************************************************************)
\* Rows and columns of the tight bounding box of a non-empty set of cells.
BoxOf(cells) ==
    [rows |-> SetMax({rc[1] : rc \in cells}) - SetMin({rc[1] : rc \in cells}) + 1,
     cols |-> SetMax({rc[2] : rc \in cells}) - SetMin({rc[2] : rc \in cells}) + 1]

C28_NoVoxelDropped ==
    (Projected /\ norm # {}) =>
        LET w == Extent(norm, "x")
            h == Extent(norm, "y")
            d == Extent(norm, "z")
            box == [front |-> [rows |-> h, cols |-> w],
                    top   |-> [rows |-> w, cols |-> d],
                    side  |-> [rows |-> h, cols |-> d]]
        IN \A viewType \in ViewTypes :
              /\ \A cell \in Silhouette(norm, viewType, w, h, d) :
                    /\ cell[1] \in Coords
                    /\ cell[2] \in Coords
                    /\ proj[viewType][cell[1]][cell[2]] = 1
              /\ Ones(proj[viewType]) # {}
              /\ BoxOf(Ones(proj[viewType])) = box[viewType]
              /\ (stage \in {"flat", "flat2"} /\ flat.viewType = viewType) =>
                    Val(flat.ofGrid).dimensions =
                        [width  |-> box[viewType].cols,
                         height |-> box[viewType].rows]

\* A solid as tall as the grid whose three dimensions differ, given away
\* from the origin, was projected and its top view handed to
\* normalize2DGrid.
C28_Witness ==
    /\ stage = "flat"
    /\ flat.viewType = "top"
    /\ dims.height = GRID_SIZE
    /\ dims.width # dims.depth
    /\ dims.width # dims.height
    /\ grid # norm

(***************************************************************************)
(* C29  handleCellToggle(row, col, view) with row and col inside the grid  *)
(*      flips exactly the cell (row, col) of that view between 0 and 1 and *)
(*      leaves every other cell of the view and both other views as they   *)
(*      were; applied twice with the same arguments it restores the        *)
(*      drawings.  A click on a canvas toggles the cell whose square holds *)
(*      the point of the click, and nothing when that point lies outside   *)
(*      the grid.                                                          *)
(***************************************************************************)
\* The cells whose square on the canvas holds a point; a square has a side of
\* VIEWPORT_SIZE / GRID_SIZE pixels, compared here in GRID_SIZE-ths of a pixel.
CellsUnder(x, y) ==
    LET inside(k, offset) ==
            /\ k * VIEWPORT_SIZE <= (offset - AXIS_LABEL_PADDING) * GRID_SIZE
            /\ (offset - AXIS_LABEL_PADDING) * GRID_SIZE < (k + 1) * VIEWPORT_SIZE
    IN {rc \in Coords \X Coords : inside(rc[1], y) /\ inside(rc[2], x)}

C29_TwiceRestores ==
    \A viewType \in ViewTypes, row, col \in Coords :
       LET once == ToggleCell(studentDrawings, row, col, viewType)
       IN /\ ToggleCell(once, row, col, viewType) = studentDrawings
          /\ once[viewType][row][col] = 1 - studentDrawings[viewType][row][col]

C29_ClickStep ==
    \A viewType \in ViewTypes, x \in ClickXs, y \in ClickYs :
       handleClick(viewType, x, y) =>
          LET under == CellsUnder(x, y)
          IN \A view \in ViewTypes, r, c \in Coords :
                studentDrawings'[view][r][c] =
                   IF view = viewType /\ <<r, c>> \in under
                   THEN 1 - studentDrawings[view][r][c]
                   ELSE studentDrawings[view][r][c]

C29_ToggleFrame == []C29_TwiceRestores /\ [][C29_ClickStep]_vars

\* The second cell of the last row of the side view and the first cell of the
\* front view are filled, and the last click fell outside the grid.
C29_Witness ==
    /\ lastEvent = "handleClick"
    /\ studentDrawings.side[GRID_SIZE - 1][1] = 1
    /\ studentDrawings.front[0][0] = 1
    /\ currentShape # NULL

(***************************************************************************)
(* C30  Whenever generateNewShape installs a new shape, the published      *)
(*      currentShape is complete and consistent with itself: its           *)
(*      dimensions are calculateDimensions of its polyCube, its views are  *)
(*      calculateOrthographicProjections of that polyCube and dimensions;  *)
(*      and the three drawings of the learner are empty grids of           *)
(*      GRID_SIZE x GRID_SIZE cells.  Once loading has ended no state      *)
(*      pairs the new solid with the silhouettes of the shape before it or *)
(*      with the drawings made for it.                                     *)
(***************************************************************************)
C30_ShapeComplete ==
    (currentShape # NULL /\ ~isLoading) =>
       LET shape == Val(currentShape)
       IN /\ shape.dimensions = calculateDimensions(shape.polyCube)
          /\ shape.views = calculateOrthographicProjections(
                               shape.polyCube, shape.dimensions)
          /\ \A viewType \in ViewTypes :
                Ones(shape.views[viewType]) =
                   Silhouette(shape.polyCube, viewType,
                              shape.dimensions.width, shape.dimensions.height,
                              shape.dimensions.depth)

\* Only generateNewShape publishes a shape; the end of the progression
\* clears it.
C30_InstallStep ==
    (currentShape' # currentShape /\ currentShape' # NULL) =>
       /\ newPolyCube' = Some(Val(currentShape').polyCube)
       /\ ~isLoading'
       /\ \A viewType \in ViewTypes :
             /\ DOMAIN studentDrawings'[viewType] = Coords
             /\ \A r \in Coords :
                   /\ DOMAIN studentDrawings'[viewType][r] = Coords
                   /\ \A c \in Coords : studentDrawings'[viewType][r][c] = 0

C30_InstalledWhole == []C30_ShapeComplete /\ [][C30_InstallStep]_vars

\* The third step of the progression has just begun: the learner's drawings
\* of the second solid were right, and the solid of LEVEL_2 replaced it.
C30_Witness ==
    /\ lastEvent = "validateDrawing"
    /\ isProgressionActive
    /\ currentProgressionIndex = 2
    /\ currentShape # NULL
    /\ Val(currentShape).polyCube = Tower(7)
    /\ FilledCount(studentDrawings) = 0
    /\ ~isLoading

====
